---- MODULE Spec2Model ----
(***************************************************************************)
(* A model of the waste-space REST backend: the usage-session service, the *)
(* review service with its rating aggregation, and the parts of the        *)
(* dumpster service they depend on, over the relational store whose        *)
(* schema the migrations define.                                           *)
(*                                                                         *)
(* Units.  Times are whole seconds.  Money is kept in cents               *)
(* (price_per_day and total_cost are DECIMAL(10,2)); a cost computed by    *)
(* calculateCost is an exact rational and is kept as its numerator over    *)
(* MinutesPerDay, so calculateCost(p, m) = p * m stands for                *)
(* (p / 1440) * m cents.  A dumpster rating is kept in hundredths          *)
(* (rating is DECIMAL(3,2)).  A nullable column is << >> (NULL) or <<v>>.  *)
(***************************************************************************)
EXTENDS Integers, Sequences, FiniteSets, TLC

\* ---------------------------------------------------------------- bounds
\* The most usage sessions ever started.
MaxUsages == 2

\* The users who write reviews: three, so that an average need not be a
\* terminating decimal.
NumReviewers == 3
\* The requests in flight at once in the interleaved specifications.
NumProcs == 2

Users == {1, 2}
Reviewers == 1..NumReviewers
DumpsterIds == {1, 2}
Procs == 1..NumProcs

\* Request inputs: one start time; end times before it, equal to it, half a
\* minute and sixty and a half minutes after it; two daily prices, in cents.
StartTimes == {60}
EndTimes == {0, 60, 90, 3690}
Prices == {1000, 7200}
\* Ratings a request may carry: the ends of the allowed range and the values
\* just outside it (the controllers bind the body without validating it).
Ratings == {0, 1, 5, 6}

\* ------------------------------------------------------------- constants
SecondsPerMinute == 60
MinutesPerDay == 24 * 60

ErrorTypeNotFound == "NOT_FOUND"
ErrorTypeAlreadyExists == "ALREADY_EXISTS"
ErrorTypeUnauthorized == "UNAUTHORIZED"
ErrorTypeForbidden == "FORBIDDEN"
ErrorTypeInternal == "INTERNAL"
ErrorTypeBadRequest == "BAD_REQUEST"
OK == "OK"

UsageStatusActive == "active"
UsageStatusCompleted == "completed"
UsageStatusCancelled == "cancelled"

VARIABLES
    dumpsters,  \* dumpsters table: id -> row
    usages,     \* dumpster_usages table: sequence of rows, the id is the index
    reviews,    \* reviews table: set of rows
    last,       \* the last request served and its response
    calls,      \* requests in flight, for the interleaved specifications
    users,      \* users table: id -> row
    tokenCache, \* the refresh token cached for each user, if any
    issued,     \* the tokens handed to clients
    now         \* the time of the clock, in seconds

authVars == <<users, tokenCache, issued, now>>

vars == <<dumpsters, usages, reviews, last, calls, authVars>>

\* ----------------------------------------------------------------- errors
NotFound(message) == [type |-> ErrorTypeNotFound, msg |-> message]
Unauthorized(message) == [type |-> ErrorTypeUnauthorized, msg |-> message]
Forbidden(message) == [type |-> ErrorTypeForbidden, msg |-> message]
Internal(message) == [type |-> ErrorTypeInternal, msg |-> message]
BadRequest(message) == [type |-> ErrorTypeBadRequest, msg |-> message]
NoError == [type |-> OK, msg |-> ""]

HTTPStatus(e) ==
    CASE e.type = ErrorTypeNotFound -> 404
      [] e.type = ErrorTypeAlreadyExists -> 409
      [] e.type = ErrorTypeUnauthorized -> 401
      [] e.type = ErrorTypeForbidden -> 403
      [] e.type = ErrorTypeBadRequest -> 400
      [] e.type = ErrorTypeInternal -> 500
      [] OTHER -> 500

\* The record of a served request: its operation and arguments (id is a usage
\* id, reviewId a review id, time a start or end time), the error it returned
\* (NoError on success) and, for EndUsage, the duration and the cost of the
\* response (the cost as numerator over MinutesPerDay).
Served(op, user, dumpster, id, time, err) ==
    [op |-> op, user |-> user, dumpster |-> dumpster, id |-> id, time |-> time,
     reviewId |-> << >>, rating |-> << >>,
     err |-> err, durationMinutes |-> << >>, totalCost |-> << >>]

\* ------------------------------------------------------------- dumpsters
\* A dumpster as its owner created it: is_available, rating and review_count
\* take the column defaults.
NewDumpsterFromDTO(ownerID, pricePerDay) ==
    [ownerId |-> ownerID, pricePerDay |-> pricePerDay, isAvailable |-> TRUE,
     rating |-> 0, reviewCount |-> 0, deleted |-> FALSE]

\* A variant of the lookup below that finds soft-deleted rows too.
DumpsterGetByIDUnscoped(d) == IF d \in DOMAIN dumpsters THEN <<dumpsters[d]>> ELSE << >>

\* dumpsterRepository.GetByID: the row, or nothing when it is soft-deleted.
DumpsterGetByID(d) ==
    IF d \in DOMAIN dumpsters /\ ~dumpsters[d].deleted THEN <<dumpsters[d]>> ELSE << >>

\* -------------------------------------------------------- usage sessions
NewDumpsterUsageFromDTO(userID, dumpsterID, startTime) ==
    [userId |-> userID, dumpsterId |-> dumpsterID, startTime |-> startTime,
     endTime |-> << >>, durationMinutes |-> << >>, totalCost |-> << >>,
     status |-> UsageStatusActive, deleted |-> FALSE]

\* usageRepository.GetByID: soft-deleted rows are not found.
UsageGetByID(id) ==
    IF id \in DOMAIN usages /\ ~usages[id].deleted THEN <<usages[id]>> ELSE << >>

\* A variant of the lookup below that matches completed sessions instead of
\* active ones.
GetCompletedUsageByUserAndDumpster(userID, dumpsterID) ==
    {i \in DOMAIN usages :
        /\ usages[i].userId = userID
        /\ usages[i].dumpsterId = dumpsterID
        /\ usages[i].status = UsageStatusCompleted
        /\ ~usages[i].deleted}

\* The ids of the rows the query of GetActiveUsageByUserAndDumpster matches.
GetActiveUsageByUserAndDumpster(userID, dumpsterID) ==
    {i \in DOMAIN usages :
        /\ usages[i].userId = userID
        /\ usages[i].dumpsterId = dumpsterID
        /\ usages[i].status = UsageStatusActive
        /\ ~usages[i].deleted}

\* A variant of the availability check below that passes every listed dumpster.
DumpsterIsListed(dumpster) == ~dumpster.deleted

\* Whether the dumpster may be used now (StartUsage's availability check).
DumpsterIsAvailable(dumpster) == dumpster.isAvailable

\* time.Time.Before
Before(t, u) == t < u

\* A variant of the duration below that counts a started minute as a whole one.
DurationMinutesStarted(endTime, startTime) ==
    (endTime - startTime + SecondsPerMinute - 1) \div SecondsPerMinute

\* int(req.EndTime.Sub(usage.StartTime).Minutes()): the conversion truncates
\* toward zero, and is reached only with endTime >= startTime.
DurationMinutes(endTime, startTime) == (endTime - startTime) \div SecondsPerMinute

\* (pricePerDay / minutesPerDay) * durationMinutes, as numerator over MinutesPerDay.
calculateCost(pricePerDay, durationMinutes) == pricePerDay * durationMinutes

\* A computed cost stored in total_cost DECIMAL(10,2): rounded to the cent.
StoreCost(cost) == (2 * cost + MinutesPerDay) \div (2 * MinutesPerDay)

\* A variant of the constraint below that also admits an end equal to the start.
chk_dumpster_usages_time_or_equal(row) ==
    row.endTime = << >> \/ row.endTime[1] >= row.startTime

\* CHECK (end_time IS NULL OR end_time > start_time)
chk_dumpster_usages_time(row) ==
    row.endTime = << >> \/ row.endTime[1] > row.startTime

\* CHECK (status IN ('active', 'completed', 'cancelled'))
chk_dumpster_usages_status(row) ==
    row.status \in {UsageStatusActive, UsageStatusCompleted, UsageStatusCancelled}

\* A variant of the insert below for a table with a unique index on the
\* (user, dumpster) pairs of active sessions.
UsageCreateAcceptsUniqueActive(row) ==
    /\ chk_dumpster_usages_time(row) /\ chk_dumpster_usages_status(row)
    /\ ~\E i \in DOMAIN usages :
          /\ usages[i].userId = row.userId
          /\ usages[i].dumpsterId = row.dumpsterId
          /\ usages[i].status = UsageStatusActive
          /\ ~usages[i].deleted

\* usageRepository.Create: the insert fails only on a constraint of the table,
\* and dumpster_usages has no uniqueness constraint.
UsageCreateAccepts(row) ==
    chk_dumpster_usages_time(row) /\ chk_dumpster_usages_status(row)

\* usageService.StartUsage
StartUsage(userID, dumpsterID, startTime) ==
    LET req == Served("StartUsage", userID, dumpsterID, 0, startTime, NoError)
        dumpster == DumpsterGetByID(dumpsterID)
    IN  /\ UNCHANGED <<dumpsters, reviews, calls, authVars>>
        /\ IF dumpster = << >>
           THEN /\ last' = [req EXCEPT !.err = NotFound("dumpster not found")]
                /\ UNCHANGED usages
           ELSE IF ~DumpsterIsAvailable(dumpster[1])
           THEN /\ last' = [req EXCEPT !.err = BadRequest("dumpster is not available")]
                /\ UNCHANGED usages
           ELSE IF GetActiveUsageByUserAndDumpster(userID, dumpsterID) # {}
           THEN /\ last' = [req EXCEPT !.err = BadRequest("you already have an active usage session for this dumpster")]
                /\ UNCHANGED usages
           ELSE IF ~UsageCreateAccepts(NewDumpsterUsageFromDTO(userID, dumpsterID, startTime))
           THEN /\ last' = [req EXCEPT !.err = Internal("failed to create usage")]
                /\ UNCHANGED usages
           ELSE /\ Len(usages) < MaxUsages
                /\ usages' = Append(usages, NewDumpsterUsageFromDTO(userID, dumpsterID, startTime))
                /\ last' = [req EXCEPT !.id = Len(usages) + 1]

\* usageService.EndUsage
EndUsage(userID, id, endTime) ==
    LET req == Served("EndUsage", userID, 0, id, endTime, NoError)
        found == UsageGetByID(id)
    IN  /\ UNCHANGED <<dumpsters, reviews, calls, authVars>>
        /\ IF found = << >>
           THEN /\ last' = [req EXCEPT !.err = NotFound("usage not found")]
                /\ UNCHANGED usages
           ELSE LET usage == found[1]
                    duration == DurationMinutes(endTime, usage.startTime)
                    dumpster == DumpsterGetByID(usage.dumpsterId)
                IN  IF usage.userId # userID
                    THEN /\ last' = [req EXCEPT !.err = Forbidden("you don't have permission to end this usage session")]
                         /\ UNCHANGED usages
                    ELSE IF usage.status # UsageStatusActive
                    THEN /\ last' = [req EXCEPT !.err = BadRequest("usage session is not active")]
                         /\ UNCHANGED usages
                    ELSE IF Before(endTime, usage.startTime)
                    THEN /\ last' = [req EXCEPT !.err = BadRequest("end time must be after start time")]
                         /\ UNCHANGED usages
                    ELSE IF dumpster = << >>
                    THEN /\ last' = [req EXCEPT !.err = NotFound("dumpster not found")]
                         /\ UNCHANGED usages
                    ELSE LET totalCost == calculateCost(dumpster[1].pricePerDay, duration)
                             updated == [usage EXCEPT !.endTime = <<endTime>>,
                                                      !.durationMinutes = <<duration>>,
                                                      !.totalCost = <<StoreCost(totalCost)>>,
                                                      !.status = UsageStatusCompleted]
                         IN  IF ~(chk_dumpster_usages_time(updated) /\ chk_dumpster_usages_status(updated))
                             THEN /\ last' = [req EXCEPT !.err = Internal("failed to update usage")]
                                  /\ UNCHANGED usages
                             ELSE /\ usages' = [usages EXCEPT ![id] = updated]
                                  /\ last' = [req EXCEPT !.durationMinutes = <<duration>>,
                                                         !.totalCost = <<totalCost>>]

\* A variant of the delete below that also marks the session cancelled.
UsageCancel(id) ==
    LET req == Served("UsageDelete", 0, 0, id, 0, NoError)
    IN  /\ UNCHANGED <<dumpsters, reviews, calls, authVars>>
        /\ IF UsageGetByID(id) = << >>
           THEN /\ last' = [req EXCEPT !.err = NotFound("usage not found")]
                /\ UNCHANGED usages
           ELSE /\ usages' = [usages EXCEPT ![id].deleted = TRUE,
                                            ![id].status = UsageStatusCancelled]
                /\ last' = req

\* A variant of the delete below that refuses sessions that are not active.
UsageDeleteActiveOnly(id) ==
    LET req == Served("UsageDelete", 0, 0, id, 0, NoError)
    IN  /\ UNCHANGED <<dumpsters, reviews, calls, authVars>>
        /\ IF UsageGetByID(id) = << >>
           THEN /\ last' = [req EXCEPT !.err = NotFound("usage not found")]
                /\ UNCHANGED usages
           ELSE IF usages[id].status # UsageStatusActive
           THEN /\ last' = [req EXCEPT !.err = BadRequest("usage session is not active")]
                /\ UNCHANGED usages
           ELSE /\ usages' = [usages EXCEPT ![id].deleted = TRUE]
                /\ last' = req

\* usageService.Delete: no ownership or status check; a soft delete.
UsageDelete(id) ==
    LET req == Served("UsageDelete", 0, 0, id, 0, NoError)
    IN  /\ UNCHANGED <<dumpsters, reviews, calls, authVars>>
        /\ IF UsageGetByID(id) = << >>
           THEN /\ last' = [req EXCEPT !.err = NotFound("usage not found")]
                /\ UNCHANGED usages
           ELSE /\ usages' = [usages EXCEPT ![id].deleted = TRUE]
                /\ last' = req

\* dumpsterService.Update, for the fields the sessions read: price and availability.
\* A field the request leaves out (<< >>) keeps its value.
applyDumpsterUpdates(dumpster, pricePerDay, isAvailable) ==
    [dumpster EXCEPT
        !.pricePerDay = IF pricePerDay = << >> THEN @ ELSE pricePerDay[1],
        !.isAvailable = IF isAvailable = << >> THEN @ ELSE isAvailable[1]]

DumpsterUpdate(ownerID, id, pricePerDay, isAvailable) ==
    LET req == Served("DumpsterUpdate", ownerID, id, 0, 0, NoError)
        dumpster == DumpsterGetByID(id)
    IN  /\ UNCHANGED <<usages, reviews, calls, authVars>>
        /\ IF dumpster = << >>
           THEN /\ last' = [req EXCEPT !.err = NotFound("dumpster not found")]
                /\ UNCHANGED dumpsters
           ELSE IF dumpster[1].ownerId # ownerID
           THEN /\ last' = [req EXCEPT !.err = Forbidden("you don't have permission to update this dumpster")]
                /\ UNCHANGED dumpsters
           ELSE /\ dumpsters' = [dumpsters EXCEPT ![id] = applyDumpsterUpdates(dumpster[1], pricePerDay, isAvailable)]
                /\ last' = req

\* A variant of the delete below that does not compare the caller with the owner.
DumpsterDeleteByAnyone(ownerID, id) ==
    LET req == Served("DumpsterDelete", ownerID, id, 0, 0, NoError)
    IN  /\ UNCHANGED <<usages, reviews, calls, authVars>>
        /\ IF DumpsterGetByID(id) = << >>
           THEN /\ last' = [req EXCEPT !.err = NotFound("dumpster not found")]
                /\ UNCHANGED dumpsters
           ELSE /\ dumpsters' = [dumpsters EXCEPT ![id].deleted = TRUE]
                /\ last' = req

\* dumpsterService.Delete: a soft delete, so no foreign key cascades.
DumpsterDelete(ownerID, id) ==
    LET req == Served("DumpsterDelete", ownerID, id, 0, 0, NoError)
        dumpster == DumpsterGetByID(id)
    IN  /\ UNCHANGED <<usages, reviews, calls, authVars>>
        /\ IF dumpster = << >>
           THEN /\ last' = [req EXCEPT !.err = NotFound("dumpster not found")]
                /\ UNCHANGED dumpsters
           ELSE IF dumpster[1].ownerId # ownerID
           THEN /\ last' = [req EXCEPT !.err = Forbidden("you don't have permission to delete this dumpster")]
                /\ UNCHANGED dumpsters
           ELSE /\ dumpsters' = [dumpsters EXCEPT ![id].deleted = TRUE]
                /\ last' = req

\* ---------------------------------------------------------------- reviews
\* A review row before it is inserted.
NewReviewFromDTO(userID, dumpsterID, rating) ==
    [userId |-> userID, dumpsterId |-> dumpsterID, rating |-> rating, deleted |-> FALSE]

\* The primary key the insert gives a row (gen_random_uuid()): here the author,
\* the dumpster and the ordinal of the row among the rows of that pair.
NewReviewID(rs, row) ==
    <<row.userId, row.dumpsterId,
      1 + Cardinality({r \in rs : r.userId = row.userId /\ r.dumpsterId = row.dumpsterId})>>

\* reviewRepository.GetByID: soft-deleted rows are not found.
ReviewGetByID(id) == {r \in reviews : r.id = id /\ ~r.deleted}

\* A variant of the lookup below that matches the soft-deleted rows instead.
GetDeletedByUserAndDumpster(userID, dumpsterID) ==
    {r \in reviews : r.userId = userID /\ r.dumpsterId = dumpsterID /\ r.deleted}

\* reviewRepository.GetByUserAndDumpster
GetByUserAndDumpster(userID, dumpsterID) ==
    {r \in reviews : r.userId = userID /\ r.dumpsterId = dumpsterID /\ ~r.deleted}

\* A variant of the constraint below without the lower limit.
chk_reviews_rating_upper(row) == row.rating <= 5

\* CHECK (rating >= 1 AND rating <= 5)
chk_reviews_rating(row) == row.rating >= 1 /\ row.rating <= 5

\* UNIQUE (user_id, dumpster_id): over every row of the table, soft-deleted or not.
uniq_reviews_user_dumpster(rs, row) ==
    ~\E r \in rs : r.userId = row.userId /\ r.dumpsterId = row.dumpsterId

\* reviewRepository.Create: the error of an insert into table rs; every
\* failure, a violated constraint included, is wrapped as Internal.
ReviewCreateError(rs, row) ==
    IF chk_reviews_rating(row) /\ uniq_reviews_user_dumpster(rs, row)
    THEN NoError
    ELSE Internal("failed to create review")

\* The rows of table rs a query on model.Review for a dumpster matches.
ReviewsOfDumpster(rs, dumpsterID) ==
    {r \in rs : r.dumpsterId = dumpsterID /\ ~r.deleted}

RECURSIVE SumRating(_)
SumRating(rows) ==
    IF rows = {} THEN 0
    ELSE LET r == CHOOSE x \in rows : TRUE IN r.rating + SumRating(rows \ {r})

\* reviewRepository.GetAverageRating: COALESCE(AVG(rating), 0), an exact
\* rational kept as <<numerator, denominator>>.
GetAverageRating(rs, dumpsterID) ==
    LET rows == ReviewsOfDumpster(rs, dumpsterID)
    IN  IF rows = {} THEN <<0, 1>> ELSE <<SumRating(rows), Cardinality(rows)>>

\* A variant of the count below that counts the soft-deleted rows too.
GetReviewCountUnscoped(rs, dumpsterID) ==
    Cardinality({r \in rs : r.dumpsterId = dumpsterID})

\* reviewRepository.GetReviewCount
GetReviewCount(rs, dumpsterID) == Cardinality(ReviewsOfDumpster(rs, dumpsterID))

\* An average stored in rating DECIMAL(3,2): in hundredths, rounded half up.
StoreRating(avg) == (200 * avg[1] + avg[2]) \div (2 * avg[2])

\* CHECK (rating >= 0 AND rating <= 5), on hundredths.
chk_dumpsters_rating(row) == row.rating >= 0 /\ row.rating <= 500

\* reviewService.updateDumpsterRating over review table rs: the error it
\* returns and the dumpsters table it leaves.
updateDumpsterRating(rs, dumpsterID) ==
    LET avgRating == GetAverageRating(rs, dumpsterID)
        reviewCount == GetReviewCount(rs, dumpsterID)
        dumpster == DumpsterGetByID(dumpsterID)
    IN  IF dumpster = << >>
        THEN [err |-> NotFound("dumpster not found"), table |-> dumpsters]
        ELSE LET updated == [dumpster[1] EXCEPT !.rating = StoreRating(avgRating),
                                                !.reviewCount = reviewCount]
             IN  IF ~chk_dumpsters_rating(updated)
                 THEN [err |-> Internal("failed to update dumpster"), table |-> dumpsters]
                 ELSE [err |-> NoError, table |-> [dumpsters EXCEPT ![dumpsterID] = updated]]

\* A variant of the recomputation below in which a refused dumpster write is
\* reported but has taken effect.
updateDumpsterRatingWriteThrough(rs, dumpsterID, saveFails) ==
    [err |-> IF saveFails /\ DumpsterGetByID(dumpsterID) # << >>
             THEN Internal("failed to update dumpster")
             ELSE updateDumpsterRating(rs, dumpsterID).err,
     table |-> updateDumpsterRating(rs, dumpsterID).table]

\* reviewService.updateDumpsterRating when the store may refuse the write of
\* the dumpster (saveFails): dumpsterRepository.Update then returns
\* Internal("failed to update dumpster") and the row keeps its values.
updateDumpsterRatingOrFail(rs, dumpsterID, saveFails) ==
    IF saveFails /\ DumpsterGetByID(dumpsterID) # << >>
    THEN [err |-> Internal("failed to update dumpster"), table |-> dumpsters]
    ELSE updateDumpsterRating(rs, dumpsterID)

\* reviewService.Create; saveFails says whether the store refuses the write of
\* the dumpster in the recomputation.
ReviewCreateWith(userID, dumpsterID, rating, saveFails) ==
    LET req == [Served("ReviewCreate", userID, dumpsterID, 0, 0, NoError) EXCEPT !.rating = <<rating>>]
        review == NewReviewFromDTO(userID, dumpsterID, rating)
        created == [id |-> NewReviewID(reviews, review)] @@ review
        aggregated == updateDumpsterRatingOrFail(reviews \cup {created}, dumpsterID, saveFails)
    IN  /\ UNCHANGED <<usages, calls, authVars>>
        /\ IF DumpsterGetByID(dumpsterID) = << >>
           THEN /\ last' = [req EXCEPT !.err = NotFound("dumpster not found")]
                /\ UNCHANGED <<reviews, dumpsters>>
           ELSE IF GetByUserAndDumpster(userID, dumpsterID) # {}
           THEN /\ last' = [req EXCEPT !.err = BadRequest("you have already reviewed this dumpster")]
                /\ UNCHANGED <<reviews, dumpsters>>
           ELSE IF ReviewCreateError(reviews, review) # NoError
           THEN /\ last' = [req EXCEPT !.err = ReviewCreateError(reviews, review)]
                /\ UNCHANGED <<reviews, dumpsters>>
           ELSE /\ reviews' = reviews \cup {created}
                /\ dumpsters' = aggregated.table
                /\ last' = [req EXCEPT !.reviewId = created.id, !.err = aggregated.err]

\* reviewService.Create with a store that serves every statement.
ReviewCreate(userID, dumpsterID, rating) == ReviewCreateWith(userID, dumpsterID, rating, FALSE)

\* reviewService.applyReviewUpdates: a rating the request leaves out (<< >>)
\* keeps its value.
applyReviewUpdates(review, rating) ==
    [review EXCEPT !.rating = IF rating = << >> THEN @ ELSE rating[1]]

\* reviewService.Update; saveFails as in ReviewCreateWith.
ReviewUpdateWith(userID, id, rating, saveFails) ==
    LET req == [Served("ReviewUpdate", userID, 0, 0, 0, NoError) EXCEPT !.reviewId = id, !.rating = rating]
        found == ReviewGetByID(id)
    IN  /\ UNCHANGED <<usages, calls, authVars>>
        /\ IF found = {}
           THEN /\ last' = [req EXCEPT !.err = NotFound("review not found")]
                /\ UNCHANGED <<reviews, dumpsters>>
           ELSE LET review == CHOOSE r \in found : TRUE
                    updated == applyReviewUpdates(review, rating)
                    saved == (reviews \ {review}) \cup {updated}
                    aggregated == updateDumpsterRatingOrFail(saved, review.dumpsterId, saveFails)
                IN  IF review.userId # userID
                    THEN /\ last' = [req EXCEPT !.err = Forbidden("you don't have permission to update this review")]
                         /\ UNCHANGED <<reviews, dumpsters>>
                    ELSE IF ~chk_reviews_rating(updated)
                    THEN /\ last' = [req EXCEPT !.err = Internal("failed to update review")]
                         /\ UNCHANGED <<reviews, dumpsters>>
                    ELSE /\ reviews' = saved
                         /\ dumpsters' = aggregated.table
                         /\ last' = [req EXCEPT !.dumpster = review.dumpsterId, !.err = aggregated.err]

\* reviewService.Update with a store that serves every statement.
ReviewUpdate(userID, id, rating) == ReviewUpdateWith(userID, id, rating, FALSE)

\* reviewService.Delete: a soft delete of the row; saveFails as in ReviewCreateWith.
ReviewDeleteWith(userID, id, saveFails) ==
    LET req == [Served("ReviewDelete", userID, 0, 0, 0, NoError) EXCEPT !.reviewId = id]
        found == ReviewGetByID(id)
    IN  /\ UNCHANGED <<usages, calls, authVars>>
        /\ IF found = {}
           THEN /\ last' = [req EXCEPT !.err = NotFound("review not found")]
                /\ UNCHANGED <<reviews, dumpsters>>
           ELSE LET review == CHOOSE r \in found : TRUE
                    saved == (reviews \ {review}) \cup {[review EXCEPT !.deleted = TRUE]}
                    aggregated == updateDumpsterRatingOrFail(saved, review.dumpsterId, saveFails)
                IN  IF review.userId # userID
                    THEN /\ last' = [req EXCEPT !.err = Forbidden("you don't have permission to delete this review")]
                         /\ UNCHANGED <<reviews, dumpsters>>
                    ELSE /\ reviews' = saved
                         /\ dumpsters' = aggregated.table
                         /\ last' = [req EXCEPT !.dumpster = review.dumpsterId, !.err = aggregated.err]

\* reviewService.Delete with a store that serves every statement.
ReviewDelete(userID, id) == ReviewDeleteWith(userID, id, FALSE)

\* ------------------------------------------------------- requests in flight
\* A request not yet made: the position of the handler (pc), its arguments, whether
\* it has passed the handler's existence check, and the error it returned.
Idle ==
    [pc |-> "idle", user |-> 0, dumpster |-> 0, time |-> 0, rating |-> 0,
     passed |-> FALSE, err |-> NoError]

\* --------------------------------------------------------------- bookings
SecondsPerDay == 24 * 3600

\* A variant of the booking below that takes the dumpster off the market once
\* it is booked.
BookDumpsterReserving(p, userID, dumpsterID, startDate, endDate) ==
    LET req == [op |-> "BookDumpster", user |-> userID, dumpster |-> dumpsterID,
                startDate |-> startDate, endDate |-> endDate, err |-> NoError,
                totalPrice |-> << >>, status |-> ""]
        dumpster == DumpsterGetByID(dumpsterID)
        response ==
            IF dumpster = << >> THEN [req EXCEPT !.err = NotFound("dumpster not found")]
            ELSE IF ~dumpster[1].isAvailable
            THEN [req EXCEPT !.err = BadRequest("dumpster is not available")]
            ELSE IF endDate - startDate <= 0
            THEN [req EXCEPT !.err = BadRequest("end date must be after start date")]
            ELSE [req EXCEPT !.totalPrice = <<dumpster[1].pricePerDay * (endDate - startDate)>>,
                             !.status = "pending"]
    IN  /\ UNCHANGED <<usages, reviews, authVars>>
        /\ dumpsters' = IF response.err = NoError
                        THEN [dumpsters EXCEPT ![dumpsterID].isAvailable = FALSE]
                        ELSE dumpsters
        /\ last' = response
        /\ calls' = [calls EXCEPT ![p] = response]

\* dumpsterService.BookDumpster, asked by client p: the quote it returns, with
\* the price as numerator over SecondsPerDay (days = hours / 24 is a real
\* number). calls keeps the answer client p was given; no table is written.
BookDumpster(p, userID, dumpsterID, startDate, endDate) ==
    LET req == [op |-> "BookDumpster", user |-> userID, dumpster |-> dumpsterID,
                startDate |-> startDate, endDate |-> endDate, err |-> NoError,
                totalPrice |-> << >>, status |-> ""]
        dumpster == DumpsterGetByID(dumpsterID)
        response ==
            IF dumpster = << >> THEN [req EXCEPT !.err = NotFound("dumpster not found")]
            ELSE IF ~dumpster[1].isAvailable
            THEN [req EXCEPT !.err = BadRequest("dumpster is not available")]
            ELSE IF endDate - startDate <= 0
            THEN [req EXCEPT !.err = BadRequest("end date must be after start date")]
            ELSE [req EXCEPT !.totalPrice = <<dumpster[1].pricePerDay * (endDate - startDate)>>,
                             !.status = "pending"]
    IN  /\ UNCHANGED <<dumpsters, usages, reviews, authVars>>
        /\ last' = response
        /\ calls' = [calls EXCEPT ![p] = response]

\* --------------------------------------------------------------- accounts
defaultAccessTokenExpiry == 15 * 60
defaultRefreshTokenExpiry == 7 * 24 * 3600
refreshTokenTTL == 7 * 24 * 3600

\* A registered user, an e-mail address being a number: is_email_verified
\* and is_active take the column defaults.
NewUserFromDTO(email) ==
    [email |-> email, isEmailVerified |-> FALSE, isActive |-> TRUE, deleted |-> FALSE]

\* userRepository.GetByID: soft-deleted rows are not found.
UserGetByID(id) == IF id \in DOMAIN users /\ ~users[id].deleted THEN <<users[id]>> ELSE << >>

\* userRepository.GetByEmail: the non-deleted row with the address, which
\* idx_users_email keeps unique; here the row together with its id.
GetByEmail(email) ==
    LET found == {u \in DOMAIN users : users[u].email = email /\ ~users[u].deleted}
    IN  IF found = {} THEN << >>
        ELSE LET u == CHOOSE x \in found : TRUE IN <<[id |-> u] @@ users[u]>>

\* jwtService.generateToken: the signed claims. Two tokens with the same
\* claims are the same string.
generateToken(userID, tokenType, expiresAt) ==
    [userId |-> userID, type |-> tokenType, expiresAt |-> expiresAt, issuedAt |-> now,
     signed |-> TRUE]

\* jwtService.GenerateTokenPair
GenerateTokenPair(userID) ==
    [accessToken |-> generateToken(userID, "access", now + defaultAccessTokenExpiry),
     refreshToken |-> generateToken(userID, "refresh", now + defaultRefreshTokenExpiry)]

\* A token that was not signed with the secret key of the service.
ForgedToken ==
    [userId |-> 1, type |-> "refresh", expiresAt |-> defaultRefreshTokenExpiry, issuedAt |-> 0,
     signed |-> FALSE]

\* jwt.ParseWithClaims: the signature, then the expiry.
ParseWithClaims(token) ==
    IF ~token.signed THEN Unauthorized("invalid token")
    ELSE IF now >= token.expiresAt THEN Unauthorized("token has expired")
    ELSE NoError

\* jwtService.ValidateToken: the claims of a valid access token.
ValidateToken(token) ==
    IF ParseWithClaims(token) # NoError THEN [err |-> ParseWithClaims(token), userId |-> 0]
    ELSE IF token.type # "access" THEN [err |-> Unauthorized("invalid token"), userId |-> 0]
    ELSE [err |-> NoError, userId |-> token.userId]

\* jwtService.RefreshAccessToken: a new access token for a valid refresh token.
RefreshAccessToken(token) ==
    IF ParseWithClaims(token) # NoError
    THEN [err |-> ParseWithClaims(token), accessToken |-> << >>]
    ELSE IF token.type # "refresh"
    THEN [err |-> Unauthorized("invalid token"), accessToken |-> << >>]
    ELSE [err |-> NoError,
          accessToken |-> <<generateToken(token.userId, "access", now + defaultAccessTokenExpiry)>>]

\* tokenCache.GetRefreshToken: the value of the key, unless it is missing or
\* its time to live has passed (redis.Nil).
GetRefreshToken(userID) ==
    IF userID \in DOMAIN tokenCache /\ tokenCache[userID] # << >>
          /\ now < tokenCache[userID][1].expiresAt
    THEN <<tokenCache[userID][1].token>>
    ELSE << >>

\* userService.Login; passwordMatches is the outcome of
\* bcrypt.CompareHashAndPassword for the password sent.
Login(email, passwordMatches) ==
    LET req == [op |-> "Login", user |-> email, err |-> NoError,
                accessToken |-> << >>, refreshToken |-> << >>]
        user == GetByEmail(email)
        tokenPair == GenerateTokenPair(user[1].id)
    IN  /\ UNCHANGED <<dumpsters, usages, reviews, calls, users, now>>
        /\ IF user = << >>
           THEN /\ last' = [req EXCEPT !.err = Unauthorized("invalid email or password")]
                /\ UNCHANGED <<tokenCache, issued>>
           ELSE IF ~user[1].isActive
           THEN /\ last' = [req EXCEPT !.err = Forbidden("user account is inactive")]
                /\ UNCHANGED <<tokenCache, issued>>
           ELSE IF ~passwordMatches
           THEN /\ last' = [req EXCEPT !.err = Unauthorized("invalid email or password")]
                /\ UNCHANGED <<tokenCache, issued>>
           ELSE /\ tokenCache' = [tokenCache EXCEPT ![user[1].id] =
                                    <<[token |-> tokenPair.refreshToken,
                                       expiresAt |-> now + refreshTokenTTL]>>]
                /\ issued' = issued \cup {tokenPair.accessToken, tokenPair.refreshToken}
                /\ last' = [req EXCEPT !.accessToken = <<tokenPair.accessToken>>,
                                       !.refreshToken = <<tokenPair.refreshToken>>]

\* userService.RefreshToken
RefreshToken(refreshToken) ==
    LET req == [op |-> "RefreshToken", token |-> refreshToken, time |-> now,
                err |-> NoError, accessToken |-> << >>]
        claims == ValidateToken(refreshToken)
        cachedToken == GetRefreshToken(claims.userId)
        refreshed == RefreshAccessToken(refreshToken)
    IN  /\ UNCHANGED <<dumpsters, usages, reviews, calls, users, tokenCache, now>>
        /\ IF claims.err # NoError
           THEN /\ last' = [req EXCEPT !.err = Unauthorized("invalid refresh token")]
                /\ UNCHANGED issued
           ELSE IF cachedToken = << >>
           THEN /\ last' = [req EXCEPT !.err = Unauthorized("refresh token expired or revoked")]
                /\ UNCHANGED issued
           ELSE IF cachedToken[1] # refreshToken
           THEN /\ last' = [req EXCEPT !.err = Unauthorized("invalid refresh token")]
                /\ UNCHANGED issued
           ELSE IF refreshed.err # NoError
           THEN /\ last' = [req EXCEPT !.err = refreshed.err]
                /\ UNCHANGED issued
           ELSE /\ last' = [req EXCEPT !.accessToken = refreshed.accessToken]
                /\ issued' = issued \cup {refreshed.accessToken[1]}

\* userService.DeleteMe: userRepository.Delete sets deleted_at on the row of
\* the user (model.User has a gorm.DeletedAt), and no other table is written.
DeleteMe(userID) ==
    LET req == Served("DeleteMe", userID, 0, 0, 0, NoError)
    IN  /\ UNCHANGED <<dumpsters, usages, reviews, calls, tokenCache, issued, now>>
        /\ IF UserGetByID(userID) = << >>
           THEN /\ last' = [req EXCEPT !.err = NotFound("user not found")]
                /\ UNCHANGED users
           ELSE /\ users' = [users EXCEPT ![userID].deleted = TRUE]
                /\ last' = req

\* CREATE UNIQUE INDEX idx_users_email ON users(email) WHERE deleted_at IS NULL:
\* the table with the row of the user replaced is accepted.
idx_users_email(table) ==
    \A u, v \in DOMAIN table :
        (u # v /\ ~table[u].deleted /\ ~table[v].deleted) => table[u].email # table[v].email

\* userService.UpdateEmail: userRepository.Update saves the row, and reports
\* every error of the save, a violation of the unique index too, as Internal.
UpdateEmail(userID, email) ==
    LET req == Served("UpdateEmail", userID, 0, 0, 0, NoError) @@ [email |-> email]
        user == UserGetByID(userID)
        updated == [users EXCEPT ![userID].email = email,
                                 ![userID].isEmailVerified = FALSE]
    IN  /\ UNCHANGED <<dumpsters, usages, reviews, calls, tokenCache, issued, now>>
        /\ IF user = << >>
           THEN /\ last' = [req EXCEPT !.err = NotFound("user not found")]
                /\ UNCHANGED users
           ELSE IF ~idx_users_email(updated)
           THEN /\ last' = [req EXCEPT !.err = Internal("failed to update user")]
                /\ UNCHANGED users
           ELSE /\ users' = updated
                /\ last' = req

\* userRepository.VerifyEmail
VerifyEmail(id) ==
    LET req == Served("VerifyEmail", id, 0, 0, 0, NoError)
    IN  /\ UNCHANGED <<dumpsters, usages, reviews, calls, tokenCache, issued, now>>
        /\ IF UserGetByID(id) = << >>
           THEN /\ last' = [req EXCEPT !.err = NotFound("user not found")]
                /\ UNCHANGED users
           ELSE /\ users' = [users EXCEPT ![id].isEmailVerified = TRUE]
                /\ last' = req

\* The clock moves on.
Tick(seconds) ==
    /\ now' = now + seconds
    /\ UNCHANGED <<dumpsters, usages, reviews, last, calls, users, tokenCache, issued>>

\* The accounts of the given users, each registered with the address of its
\* own number, none logged in, at time 0.
InitAccounts(ids) ==
    /\ users = [u \in ids |-> NewUserFromDTO(u)]
    /\ tokenCache = [u \in ids |-> << >>]
    /\ issued = {}
    /\ now = 0

\* ------------------------------------------------------------------ init
\* The store after each dumpster has been listed by its owner (user 1), with no
\* session and no review yet, and no request served.
Init ==
    /\ dumpsters = [d \in DumpsterIds |-> NewDumpsterFromDTO(1, 7200)]
    /\ usages = << >>
    /\ reviews = {}
    /\ last = Served("none", 0, 0, 0, 0, NoError)
    /\ calls = [p \in Procs |-> Idle]
    /\ InitAccounts(Users)

\* The user who listed dumpster d.
OwnerOf(d) == dumpsters[d].ownerId

\* ------------------------------------- usage sessions, one request at a time
\* The sessions are on dumpster 1.
UsedDumpsters == {1}

NextUsage ==
    \/ \E u \in Users, d \in UsedDumpsters, t \in StartTimes : StartUsage(u, d, t)
    \/ \E u \in Users, id \in 1..MaxUsages, t \in EndTimes : EndUsage(u, id, t)
    \/ \E id \in 1..MaxUsages : UsageDelete(id)
    \/ \E d \in UsedDumpsters, p \in Prices : DumpsterUpdate(OwnerOf(d), d, <<p>>, << >>)
    \/ \E d \in UsedDumpsters, a \in BOOLEAN : DumpsterUpdate(OwnerOf(d), d, << >>, <<a>>)
    \/ \E d \in UsedDumpsters : DumpsterDelete(OwnerOf(d), d)

SpecUsage == Init /\ [][NextUsage]_vars

\* -------------------------------------------- reviews, one request at a time
\* Every reviewer reviews dumpster 1, and reviewer 1 dumpster 2 as well.
ReviewPairs == {pr \in Reviewers \X DumpsterIds : pr[2] = 1 \/ pr[1] = 1}
ReviewIds == {<<pr[1], pr[2], 1>> : pr \in ReviewPairs}

\* A user other than u, for the requests of a user who is not the author.
OtherReviewer(u) == (u % NumReviewers) + 1

\* No dumpster is deleted here, so no rating recomputation fails midway.
NextReview ==
    \/ \E pr \in ReviewPairs, r \in Ratings : ReviewCreate(pr[1], pr[2], r)
    \/ \E id \in ReviewIds, r \in {<< >>} \cup {<<x>> : x \in Ratings} : ReviewUpdate(id[1], id, r)
    \/ \E id \in ReviewIds : ReviewUpdate(OtherReviewer(id[1]), id, << >>)
    \/ \E id \in ReviewIds : \E u \in {id[1], OtherReviewer(id[1])} : ReviewDelete(u, id)

SpecReview == Init /\ [][NextReview]_vars

\* ------------- reviews, one request at a time, recomputations that may fail
\* Two users review dumpster 1; the store may refuse the dumpster write of a
\* recomputation, and the owner may delete the dumpster.
NextReviewFault ==
    \/ \E u \in Users, d \in UsedDumpsters, r \in Ratings, f \in BOOLEAN :
          ReviewCreateWith(u, d, r, f)
    \/ \E u \in Users, d \in UsedDumpsters, f \in BOOLEAN,
          r \in {<< >>} \cup {<<x>> : x \in Ratings} : ReviewUpdateWith(u, <<u, d, 1>>, r, f)
    \/ \E u \in Users, d \in UsedDumpsters, f \in BOOLEAN : ReviewDeleteWith(u, <<u, d, 1>>, f)
    \/ \E d \in UsedDumpsters : DumpsterDelete(OwnerOf(d), d)

SpecReviewFault == Init /\ [][NextReviewFault]_vars

\* ------------------- every mutation, by its owner and by another user
\* Sessions, reviews and the dumpster itself, each request made by either
\* user, so by one who is and one who is not the owner of what it touches.
NextOwnership ==
    \/ \E u \in Users, d \in UsedDumpsters, t \in StartTimes : StartUsage(u, d, t)
    \/ \E u \in Users, id \in 1..MaxUsages : EndUsage(u, id, 3690)
    \/ \E u \in Users, d \in UsedDumpsters : ReviewCreate(u, d, 5)
    \/ \E u, v \in Users, d \in UsedDumpsters : ReviewUpdate(u, <<v, d, 1>>, <<1>>)
    \/ \E u, v \in Users, d \in UsedDumpsters : ReviewDelete(u, <<v, d, 1>>)
    \/ \E u \in Users, d \in UsedDumpsters, a \in BOOLEAN : DumpsterUpdate(u, d, << >>, <<a>>)
    \/ \E u \in Users, d \in UsedDumpsters : DumpsterDelete(u, d)

SpecOwnership == Init /\ [][NextOwnership]_vars

\* ------------------------------------------------ StartUsage, interleaved
\* usageService.StartUsage as the steps of one request p: the dumpster lookup
\* and availability check, the active-session check, the insert.  Nothing
\* holds a lock or a transaction across them.
StartUsageLookup(p, userID, dumpsterID, startTime) ==
    LET call == [Idle EXCEPT !.user = userID, !.dumpster = dumpsterID, !.time = startTime]
        dumpster == DumpsterGetByID(dumpsterID)
    IN  /\ calls[p].pc = "idle"
        /\ UNCHANGED <<dumpsters, usages, reviews, last, authVars>>
        /\ calls' = [calls EXCEPT ![p] =
              IF dumpster = << >>
              THEN [call EXCEPT !.pc = "done", !.err = NotFound("dumpster not found")]
              ELSE IF ~DumpsterIsAvailable(dumpster[1])
              THEN [call EXCEPT !.pc = "done", !.err = BadRequest("dumpster is not available")]
              ELSE [call EXCEPT !.pc = "check"]]

StartUsageCheck(p) ==
    /\ calls[p].pc = "check"
    /\ UNCHANGED <<dumpsters, usages, reviews, last, authVars>>
    /\ calls' = [calls EXCEPT ![p] =
          IF GetActiveUsageByUserAndDumpster(calls[p].user, calls[p].dumpster) # {}
          THEN [@ EXCEPT !.pc = "done", !.err = BadRequest("you already have an active usage session for this dumpster")]
          ELSE [@ EXCEPT !.pc = "insert", !.passed = TRUE]]

StartUsageInsert(p) ==
    LET usage == NewDumpsterUsageFromDTO(calls[p].user, calls[p].dumpster, calls[p].time)
    IN  /\ calls[p].pc = "insert"
        /\ UNCHANGED <<dumpsters, reviews, last, authVars>>
        /\ IF UsageCreateAccepts(usage)
           THEN /\ usages' = Append(usages, usage)
                /\ calls' = [calls EXCEPT ![p].pc = "done"]
           ELSE /\ UNCHANGED usages
                /\ calls' = [calls EXCEPT ![p].pc = "done", ![p].err = Internal("failed to create usage")]

\* The owner switches the availability of a dumpster while the requests run.
NextStartRace ==
    \/ \E p \in Procs, u \in Users, d \in UsedDumpsters, t \in StartTimes : StartUsageLookup(p, u, d, t)
    \/ \E p \in Procs : StartUsageCheck(p)
    \/ \E p \in Procs : StartUsageInsert(p)
    \/ \E d \in UsedDumpsters, a \in BOOLEAN : DumpsterUpdate(OwnerOf(d), d, << >>, <<a>>)

SpecStartRace == Init /\ [][NextStartRace]_vars

\* --------------------------------------------- review Create, interleaved
\* reviewService.Create as the steps of one request p: the dumpster lookup and
\* the existing-review check, the insert, the rating recomputation.
ReviewCreateCheck(p, userID, dumpsterID, rating) ==
    LET call == [Idle EXCEPT !.user = userID, !.dumpster = dumpsterID, !.rating = rating]
    IN  /\ calls[p].pc = "idle"
        /\ UNCHANGED <<dumpsters, usages, reviews, last, authVars>>
        /\ calls' = [calls EXCEPT ![p] =
              IF DumpsterGetByID(dumpsterID) = << >>
              THEN [call EXCEPT !.pc = "done", !.err = NotFound("dumpster not found")]
              ELSE IF GetByUserAndDumpster(userID, dumpsterID) # {}
              THEN [call EXCEPT !.pc = "done", !.err = BadRequest("you have already reviewed this dumpster")]
              ELSE [call EXCEPT !.pc = "insert", !.passed = TRUE]]

ReviewCreateInsert(p) ==
    LET review == NewReviewFromDTO(calls[p].user, calls[p].dumpster, calls[p].rating)
        err == ReviewCreateError(reviews, review)
    IN  /\ calls[p].pc = "insert"
        /\ UNCHANGED <<dumpsters, usages, last, authVars>>
        /\ IF err = NoError
           THEN /\ reviews' = reviews \cup {[id |-> NewReviewID(reviews, review)] @@ review}
                /\ calls' = [calls EXCEPT ![p].pc = "rating"]
           ELSE /\ UNCHANGED reviews
                /\ calls' = [calls EXCEPT ![p].pc = "done", ![p].err = err]

ReviewCreateRating(p) ==
    LET aggregated == updateDumpsterRating(reviews, calls[p].dumpster)
    IN  /\ calls[p].pc = "rating"
        /\ UNCHANGED <<usages, reviews, last, authVars>>
        /\ dumpsters' = aggregated.table
        /\ calls' = [calls EXCEPT ![p].pc = "done", ![p].err = aggregated.err]

\* A served request leaves, and its client may send another.
Return(p) ==
    /\ calls[p].pc = "done"
    /\ UNCHANGED <<dumpsters, usages, reviews, last, authVars>>
    /\ calls' = [calls EXCEPT ![p] = Idle]

NextReviewRace ==
    \/ \E p \in Procs, u \in Users, d \in UsedDumpsters, r \in Ratings : ReviewCreateCheck(p, u, d, r)
    \/ \E p \in Procs : ReviewCreateInsert(p)
    \/ \E p \in Procs : ReviewCreateRating(p)
    \/ \E p \in Procs : Return(p)

SpecReviewRace == Init /\ [][NextReviewRace]_vars

\* ------------------------------- rating recomputation, statement by statement
\* reviewService.Update up to and including the write of the review, as the
\* first step of request p; the recomputation follows in steps of its own.
ReviewUpdateSave(p, userID, id, rating) ==
    LET call == [Idle EXCEPT !.user = userID, !.rating = rating]
        found == ReviewGetByID(id)
    IN  /\ calls[p].pc = "idle"
        /\ UNCHANGED <<dumpsters, usages, last, authVars>>
        /\ IF found = {}
           THEN /\ calls' = [calls EXCEPT ![p] = [call EXCEPT !.pc = "done", !.err = NotFound("review not found")]]
                /\ UNCHANGED reviews
           ELSE LET review == CHOOSE r \in found : TRUE
                    updated == applyReviewUpdates(review, rating)
                IN  IF review.userId # userID
                    THEN /\ calls' = [calls EXCEPT ![p] = [call EXCEPT !.pc = "done",
                                 !.err = Forbidden("you don't have permission to update this review")]]
                         /\ UNCHANGED reviews
                    ELSE IF ~chk_reviews_rating(updated)
                    THEN /\ calls' = [calls EXCEPT ![p] = [call EXCEPT !.pc = "done",
                                 !.err = Internal("failed to update review")]]
                         /\ UNCHANGED reviews
                    ELSE /\ reviews' = (reviews \ {review}) \cup {updated}
                         /\ calls' = [calls EXCEPT ![p] = [call EXCEPT !.pc = "rating",
                                 !.dumpster = review.dumpsterId, !.passed = TRUE]]

\* reviewService.Delete up to and including the soft delete of the review.
ReviewDeleteSave(p, userID, id) ==
    LET call == [Idle EXCEPT !.user = userID]
        found == ReviewGetByID(id)
    IN  /\ calls[p].pc = "idle"
        /\ UNCHANGED <<dumpsters, usages, last, authVars>>
        /\ IF found = {}
           THEN /\ calls' = [calls EXCEPT ![p] = [call EXCEPT !.pc = "done", !.err = NotFound("review not found")]]
                /\ UNCHANGED reviews
           ELSE LET review == CHOOSE r \in found : TRUE
                IN  IF review.userId # userID
                    THEN /\ calls' = [calls EXCEPT ![p] = [call EXCEPT !.pc = "done",
                                 !.err = Forbidden("you don't have permission to delete this review")]]
                         /\ UNCHANGED reviews
                    ELSE /\ reviews' = (reviews \ {review}) \cup {[review EXCEPT !.deleted = TRUE]}
                         /\ calls' = [calls EXCEPT ![p] = [call EXCEPT !.pc = "rating",
                                 !.dumpster = review.dumpsterId, !.passed = TRUE]]

\* updateDumpsterRating, first statement: reviewRepo.GetAverageRating.
RatingAverage(p) ==
    /\ calls[p].pc = "rating"
    /\ UNCHANGED <<dumpsters, usages, reviews, last, authVars>>
    /\ calls' = [calls EXCEPT ![p] =
          [pc |-> "count", avgRating |-> GetAverageRating(reviews, calls[p].dumpster)] @@ calls[p]]

\* updateDumpsterRating, second statement: reviewRepo.GetReviewCount.
RatingCount(p) ==
    /\ calls[p].pc = "count"
    /\ UNCHANGED <<dumpsters, usages, reviews, last, authVars>>
    /\ calls' = [calls EXCEPT ![p] =
          [pc |-> "lookup", reviewCount |-> GetReviewCount(reviews, calls[p].dumpster)] @@ calls[p]]

\* updateDumpsterRating, third statement: dumpsterRepo.GetByID; the request
\* keeps the row it read.
RatingLookup(p) ==
    LET dumpster == DumpsterGetByID(calls[p].dumpster)
    IN  /\ calls[p].pc = "lookup"
        /\ UNCHANGED <<dumpsters, usages, reviews, last, authVars>>
        /\ calls' = [calls EXCEPT ![p] =
              IF dumpster = << >>
              THEN [pc |-> "done", err |-> NotFound("dumpster not found")] @@ calls[p]
              ELSE [pc |-> "save", row |-> dumpster[1]] @@ calls[p]]

\* A variant of the write below that stores the rating and keeps the stored
\* reviewCount.
RatingSaveRatingOnly(p) ==
    /\ calls[p].pc = "save"
    /\ UNCHANGED <<usages, reviews, last, authVars>>
    /\ dumpsters' = [dumpsters EXCEPT ![calls[p].dumpster].rating = StoreRating(calls[p].avgRating)]
    /\ calls' = [calls EXCEPT ![p] = [pc |-> "done"] @@ calls[p]]

\* updateDumpsterRating, last statements: the two assignments and
\* dumpsterRepo.Update, whose Save writes every column of the row the request
\* read.
RatingSave(p) ==
    LET updated == [calls[p].row EXCEPT !.rating = StoreRating(calls[p].avgRating),
                                        !.reviewCount = calls[p].reviewCount]
    IN  /\ calls[p].pc = "save"
        /\ UNCHANGED <<usages, reviews, last, authVars>>
        /\ IF chk_dumpsters_rating(updated)
           THEN /\ dumpsters' = [dumpsters EXCEPT ![calls[p].dumpster] = updated]
                /\ calls' = [calls EXCEPT ![p] = [pc |-> "done"] @@ calls[p]]
           ELSE /\ UNCHANGED dumpsters
                /\ calls' = [calls EXCEPT ![p] =
                      [pc |-> "done", err |-> Internal("failed to update dumpster")] @@ calls[p]]

\* Ratings the store accepts, and the reviews of dumpster 1 that exist when
\* the requests start: each user has none or one, and the dumpster carries
\* their aggregate.
RaceRatings == {1, 5}
RaceReviewIds == {<<u, 1, 1>> : u \in Users}

InitRating ==
    /\ \E given \in [Users -> {0} \cup RaceRatings] :
          /\ reviews = {[id |-> <<u, 1, 1>>] @@ NewReviewFromDTO(u, 1, given[u]) : u \in {v \in Users : given[v] # 0}}
          /\ dumpsters = [d \in DumpsterIds |->
                [NewDumpsterFromDTO(1, 7200) EXCEPT
                    !.rating = StoreRating(GetAverageRating(reviews, d)),
                    !.reviewCount = GetReviewCount(reviews, d)]]
    /\ usages = << >>
    /\ last = Served("none", 0, 0, 0, 0, NoError)
    /\ calls = [p \in Procs |-> Idle]
    /\ InitAccounts(Users)

\* Each client sends one request; the statements of the requests interleave.
NextRatingRace ==
    \/ \E p \in Procs, u \in Users, r \in RaceRatings : ReviewCreateCheck(p, u, 1, r)
    \/ \E p \in Procs : ReviewCreateInsert(p)
    \/ \E p \in Procs, id \in RaceReviewIds, r \in RaceRatings : ReviewUpdateSave(p, id[1], id, <<r>>)
    \/ \E p \in Procs, id \in RaceReviewIds : ReviewDeleteSave(p, id[1], id)
    \/ \E p \in Procs : RatingAverage(p)
    \/ \E p \in Procs : RatingCount(p)
    \/ \E p \in Procs : RatingLookup(p)
    \/ \E p \in Procs : RatingSave(p)

SpecRatingRace == InitRating /\ [][NextRatingRace]_vars

\* --------------------------------------- EndUsage, statement by statement
\* usageService.EndUsage as the steps of one request p. First usageRepo.GetByID
\* and the checks on the row it returned, which the request keeps.
EndUsageLookup(p, userID, id, endTime) ==
    LET call == [id |-> id, usage |-> << >>] @@ [Idle EXCEPT !.user = userID, !.time = endTime]
        found == UsageGetByID(id)
    IN  /\ calls[p].pc = "idle"
        /\ UNCHANGED <<dumpsters, usages, reviews, last, authVars>>
        /\ calls' = [calls EXCEPT ![p] =
              IF found = << >>
              THEN [call EXCEPT !.pc = "done", !.err = NotFound("usage not found")]
              ELSE IF found[1].userId # userID
              THEN [call EXCEPT !.pc = "done",
                                !.err = Forbidden("you don't have permission to end this usage session")]
              ELSE IF found[1].status # UsageStatusActive
              THEN [call EXCEPT !.pc = "done", !.err = BadRequest("usage session is not active")]
              ELSE IF Before(endTime, found[1].startTime)
              THEN [call EXCEPT !.pc = "done", !.err = BadRequest("end time must be after start time")]
              ELSE [call EXCEPT !.pc = "dumpster", !.passed = TRUE, !.dumpster = found[1].dumpsterId,
                                !.usage = <<[found[1] EXCEPT
                                    !.endTime = <<endTime>>,
                                    !.durationMinutes = <<DurationMinutes(endTime, found[1].startTime)>>]>>]]

\* Then dumpsterRepo.GetByID and the cost and status assignments.
EndUsageDumpster(p) ==
    LET dumpster == DumpsterGetByID(calls[p].dumpster)
        usage == calls[p].usage[1]
    IN  /\ calls[p].pc = "dumpster"
        /\ UNCHANGED <<dumpsters, usages, reviews, last, authVars>>
        /\ calls' = [calls EXCEPT ![p] =
              IF dumpster = << >>
              THEN [calls[p] EXCEPT !.pc = "done", !.err = NotFound("dumpster not found")]
              ELSE [calls[p] EXCEPT !.pc = "update",
                       !.usage = <<[usage EXCEPT
                           !.totalCost = <<StoreCost(calculateCost(dumpster[1].pricePerDay,
                                                                   usage.durationMinutes[1]))>>,
                           !.status = UsageStatusCompleted]>>]]

\* Last usageRepo.Update: Save writes every column of the row the request
\* holds, by primary key.
EndUsageUpdate(p) ==
    LET updated == calls[p].usage[1]
    IN  /\ calls[p].pc = "update"
        /\ UNCHANGED <<dumpsters, reviews, last, authVars>>
        /\ IF chk_dumpster_usages_time(updated) /\ chk_dumpster_usages_status(updated)
           THEN /\ usages' = [usages EXCEPT ![calls[p].id] = updated]
                /\ calls' = [calls EXCEPT ![p].pc = "done"]
           ELSE /\ UNCHANGED usages
                /\ calls' = [calls EXCEPT ![p].pc = "done", ![p].err = Internal("failed to update usage")]

\* End times after the start: half a minute and sixty and a half minutes.
LaterEndTimes == {90, 3690}

\* Users start sessions on dumpster 1 and each client sends one EndUsage; the
\* statements of the requests interleave.
NextEndRace ==
    \/ \E u \in Users, t \in StartTimes : StartUsage(u, 1, t)
    \/ \E p \in Procs, u \in Users, id \in 1..MaxUsages, t \in LaterEndTimes : EndUsageLookup(p, u, id, t)
    \/ \E p \in Procs : EndUsageDumpster(p)
    \/ \E p \in Procs : EndUsageUpdate(p)

SpecEndRace == Init /\ [][NextEndRace]_vars

\* -------------------------- dumpster Update, statement by statement
\* dumpsterService.Update as the steps of one request p. First
\* dumpsterRepo.GetByID, the ownership check and applyDumpsterUpdates on the
\* row it returned, which the request keeps.
DumpsterUpdateLookup(p, ownerID, id, pricePerDay) ==
    LET call == [pricePerDay |-> pricePerDay, row |-> << >>]
                  @@ [Idle EXCEPT !.user = ownerID, !.dumpster = id]
        dumpster == DumpsterGetByID(id)
    IN  /\ calls[p].pc = "idle"
        /\ UNCHANGED <<dumpsters, usages, reviews, last, authVars>>
        /\ calls' = [calls EXCEPT ![p] =
              IF dumpster = << >>
              THEN [call EXCEPT !.pc = "done", !.err = NotFound("dumpster not found")]
              ELSE IF dumpster[1].ownerId # ownerID
              THEN [call EXCEPT !.pc = "done",
                                !.err = Forbidden("you don't have permission to update this dumpster")]
              ELSE [call EXCEPT !.pc = "write", !.passed = TRUE,
                                !.row = <<applyDumpsterUpdates(dumpster[1], <<pricePerDay>>, << >>)>>]]

\* Then dumpsterRepo.Update: Save writes every column of the row the request
\* holds, rating and review_count included.
DumpsterUpdateSave(p) ==
    /\ calls[p].pc = "write"
    /\ UNCHANGED <<usages, reviews, last, authVars>>
    /\ dumpsters' = [dumpsters EXCEPT ![calls[p].dumpster] = calls[p].row[1]]
    /\ calls' = [calls EXCEPT ![p].pc = "done"]

\* The owner changes the price of dumpster 1 while users review it; each
\* client sends one request and the statements interleave.
NextUpdateRace ==
    \/ \E p \in Procs, u \in Users, pr \in Prices : DumpsterUpdateLookup(p, u, 1, pr)
    \/ \E p \in Procs : DumpsterUpdateSave(p)
    \/ \E p \in Procs, u \in Users, r \in RaceRatings : ReviewCreateCheck(p, u, 1, r)
    \/ \E p \in Procs : ReviewCreateInsert(p)
    \/ \E p \in Procs : RatingAverage(p)
    \/ \E p \in Procs : RatingCount(p)
    \/ \E p \in Procs : RatingLookup(p)
    \/ \E p \in Procs : RatingSave(p)

SpecUpdateRace == Init /\ [][NextUpdateRace]_vars

\* ------------------------------------------------------------- listing
defaultPageSize == 20
maxPageSize == 100

Max(a, b) == IF a > b THEN a ELSE b
Min(a, b) == IF a < b THEN a ELSE b

\* page := max(req.Page, 1)
QueryPage(page) == Max(page, 1)

\* limit := max(req.Limit, defaultPageSize); if limit > maxPageSize { limit = maxPageSize }
QueryLimit(limit) ==
    LET l == Max(limit, defaultPageSize)
    IN  IF l > maxPageSize THEN maxPageSize ELSE l

\* offset := (page - 1) * limit
QueryOffset(page, limit) == (QueryPage(page) - 1) * QueryLimit(limit)

\* The ids of set ids as a sequence in ascending order of key[id] (ORDER BY);
\* the tables listed here hold no two rows with the same key.
RECURSIVE OrderBy(_, _)
OrderBy(ids, key) ==
    IF ids = {} THEN << >>
    ELSE LET x == CHOOSE y \in ids : TRUE
             rest == OrderBy(ids \ {x}, key)
             before == Cardinality({i \in 1..Len(rest) : key[rest[i]] < key[x]})
         IN  SubSeq(rest, 1, before) \o <<x>> \o SubSeq(rest, before + 1, Len(rest))

\* .Limit(limit).Offset(offset) on the ordered rows.
LimitOffset(ordered, limit, offset) ==
    IF offset >= Len(ordered) THEN << >>
    ELSE SubSeq(ordered, offset + 1, Min(offset + limit, Len(ordered)))

\* int(math.Ceil(float64(total) / float64(limit))), for limit >= 1.
\* A variant of the division below that rounds down.
FloorDiv(total, limit) == total \div limit

CeilDiv(total, limit) ==
    IF total % limit = 0 THEN total \div limit ELSE (total \div limit) + 1

\* buildDumpsterListResponse, buildUsageListResponse and
\* buildReviewListResponse: the response of list operation op for the rows
\* fetched and the total counted, with the page and limit of the request.
buildListResponse(op, rows, total, page, limit) ==
    [op |-> op, err |-> NoError, rows |-> rows, total |-> total,
     page |-> Max(page, 1), limit |-> Max(limit, 1),
     totalPages |-> CeilDiv(total, Max(limit, 1))]

\* The request of a list operation and what its repository query used: the
\* page and limit asked for, the rows matching the filters, and the page, the
\* page size and the offset the rows were fetched with.
ListQuery(page, limit, matching) ==
    [reqPage |-> page, reqLimit |-> limit, matching |-> matching,
     queryPage |-> QueryPage(page), queryLimit |-> QueryLimit(limit),
     queryOffset |-> QueryOffset(page, limit)]

\* A list operation served: its response together with its query.
Listed(op, ordered, page, limit) ==
    buildListResponse(op,
                      LimitOffset(ordered, QueryLimit(limit), QueryOffset(page, limit)),
                      Len(ordered), page, limit)
      @@ ListQuery(page, limit, {ordered[i] : i \in DOMAIN ordered})

\* The non-deleted sessions matching the filters of a usage list request; a
\* filter left out is "" (status) or << >> (dumpster, user).
UsageQuery(status, dumpsterID, userID) ==
    {i \in DOMAIN usages :
        /\ ~usages[i].deleted
        /\ status = "" \/ usages[i].status = status
        /\ dumpsterID = << >> \/ usages[i].dumpsterId = dumpsterID[1]
        /\ userID = << >> \/ usages[i].userId = userID[1]}

\* ORDER BY start_time DESC
ByStartTimeDesc(ids) == OrderBy(ids, [i \in ids |-> 0 - usages[i].startTime])

\* usageService.List
UsageList(status, dumpsterID, userID, page, limit) ==
    /\ UNCHANGED <<dumpsters, usages, reviews, calls, authVars>>
    /\ last' = Listed("UsageList",
                      ByStartTimeDesc(UsageQuery(status, dumpsterID, userID)), page, limit)

\* usageService.GetByDumpsterID
UsageGetByDumpsterID(dumpsterID, status, page, limit) ==
    /\ UNCHANGED <<dumpsters, usages, reviews, calls, authVars>>
    /\ last' = Listed("UsageGetByDumpsterID",
                      ByStartTimeDesc(UsageQuery(status, <<dumpsterID>>, << >>)), page, limit)

\* usageService.GetByUserID
UsageGetByUserID(userID, status, page, limit) ==
    /\ UNCHANGED <<dumpsters, usages, reviews, calls, authVars>>
    /\ last' = Listed("UsageGetByUserID",
                      ByStartTimeDesc(UsageQuery(status, << >>, <<userID>>)), page, limit)

\* ORDER BY created_at DESC, on review ids and on dumpster ids.
ReviewsByCreatedAtDesc(rows) ==
    OrderBy({r.id : r \in rows}, [id \in {r.id : r \in rows} |->
                0 - (CHOOSE r \in rows : r.id = id).createdAt])
DumpstersByCreatedAtDesc(ids) == OrderBy(ids, [d \in ids |-> 0 - dumpsters[d].createdAt])

\* reviewService.GetByDumpsterID
ReviewGetByDumpsterID(dumpsterID, page, limit) ==
    /\ UNCHANGED <<dumpsters, usages, reviews, calls, authVars>>
    /\ last' = Listed("ReviewGetByDumpsterID",
                      ReviewsByCreatedAtDesc({r \in reviews : r.dumpsterId = dumpsterID /\ ~r.deleted}),
                      page, limit)

\* reviewService.GetByUserID
ReviewGetByUserID(userID, page, limit) ==
    /\ UNCHANGED <<dumpsters, usages, reviews, calls, authVars>>
    /\ last' = Listed("ReviewGetByUserID",
                      ReviewsByCreatedAtDesc({r \in reviews : r.userId = userID /\ ~r.deleted}),
                      page, limit)

\* ------------------------------------------------------- dumpster listing
defaultNearbyDistance == 25

\* The distance column of FindNearby's query, for points of one meridian: there
\* earthRadiusKm * acos(cos(a) * cos(b) * cos(0) + sin(a) * sin(b)) is the
\* arc between the two latitudes, and a latitude is kept here as the length in
\* kilometres of its arc from the equator.
Distance(latitude, queryLatitude) ==
    IF latitude >= queryLatitude THEN latitude - queryLatitude ELSE queryLatitude - latitude

\* limit := max(req.Limit, defaultPageSize), in FindNearby
NearbyLimit(limit) == Max(limit, defaultPageSize)

\* The rows of FindNearby's query before its LIMIT: the non-deleted dumpsters
\* nearer than maxDistance (<< >>: the default).
NearbyQuery(latitude, maxDistance) ==
    LET within == IF maxDistance = << >> THEN defaultNearbyDistance ELSE maxDistance[1]
    IN  {d \in DOMAIN dumpsters :
            /\ ~dumpsters[d].deleted
            /\ Distance(dumpsters[d].latitude, latitude) < within}

\* dumpsterRepository.FindNearby: those rows by ascending distance, at most
\* NearbyLimit(limit) of them.
FindNearbyRows(latitude, maxDistance, limit) ==
    LET near == NearbyQuery(latitude, maxDistance)
    IN  LimitOffset(OrderBy(near, [d \in near |-> Distance(dumpsters[d].latitude, latitude)]),
                    NearbyLimit(limit), 0)

\* dumpsterService.FindNearby
FindNearby(latitude, maxDistance, limit) ==
    /\ UNCHANGED <<dumpsters, usages, reviews, calls, authVars>>
    /\ last' = [op |-> "FindNearby", err |-> NoError,
                rows |-> FindNearbyRows(latitude, maxDistance, limit),
                latitude |-> latitude, maxDistance |-> maxDistance, reqLimit |-> limit]

\* The non-deleted dumpsters matching the filters of dumpsterRepository.List; a
\* filter left out is << >> or "".
DumpsterListQuery(maxPrice, size, availableNow) ==
    {d \in DOMAIN dumpsters :
        /\ ~dumpsters[d].deleted
        /\ maxPrice = << >> \/ dumpsters[d].pricePerDay <= maxPrice[1]
        /\ size = "" \/ dumpsters[d].size = size
        /\ (availableNow # << >> /\ availableNow[1]) => dumpsters[d].isAvailable}

\* The ORDER BY of dumpsterRepository.List for the sortBy of the request.
DumpsterListOrder(ids, sortBy) ==
    CASE sortBy = "price" -> OrderBy(ids, [d \in ids |-> dumpsters[d].pricePerDay])
      [] sortBy = "rating" -> OrderBy(ids, [d \in ids |-> 0 - dumpsters[d].rating])
      [] sortBy = "availability" ->
            OrderBy(ids, [d \in ids |->
                (IF dumpsters[d].isAvailable THEN 0 ELSE 1 + Cardinality(DOMAIN dumpsters))
                  - dumpsters[d].createdAt])
      [] OTHER -> DumpstersByCreatedAtDesc(ids)

\* A location string is a sequence of characters; "" is << >>.
Digits == {"0", "1"}
DigitValue(c) == IF c = "1" THEN 1 ELSE 0

\* strings.Split(location, ","): the parts between the commas.
RECURSIVE Split(_)
Split(text) ==
    IF \A i \in DOMAIN text : text[i] # ","
    THEN <<text>>
    ELSE LET i == CHOOSE k \in DOMAIN text : text[k] = "," /\ \A m \in 1..(k - 1) : text[m] # ","
         IN  <<SubSeq(text, 1, i - 1)>> \o Split(SubSeq(text, i + 1, Len(text)))

\* strings.TrimSpace
RECURSIVE TrimSpace(_)
TrimSpace(part) ==
    IF part # << >> /\ Head(part) = " " THEN TrimSpace(Tail(part))
    ELSE IF part # << >> /\ part[Len(part)] = " " THEN TrimSpace(SubSeq(part, 1, Len(part) - 1))
    ELSE part

\* The value of a sequence of digits.
RECURSIVE ParseDigits(_)
ParseDigits(digits) ==
    IF digits = << >> THEN 0
    ELSE 10 * ParseDigits(SubSeq(digits, 1, Len(digits) - 1)) + DigitValue(digits[Len(digits)])

\* fmt.Sscanf(part, "%f", &v): the number at the start of the part, whatever
\* follows it; << >> when the part does not start with a digit.
RECURSIVE NumberPrefix(_)
NumberPrefix(part) ==
    IF part = << >> \/ Head(part) \notin Digits THEN << >>
    ELSE <<Head(part)>> \o NumberPrefix(Tail(part))

Sscanf(part) == IF NumberPrefix(part) = << >> THEN << >> ELSE <<ParseDigits(NumberPrefix(part))>>

\* A variant of the parser below that reads a part only when all of it is a
\* number.
parseLocationStrict(location) ==
    LET parts == Split(location)
    IN  IF Len(parts) # 2 THEN << >>
        ELSE IF \E i \in 1..2 : Sscanf(TrimSpace(parts[i])) = << >>
                                  \/ NumberPrefix(TrimSpace(parts[i])) # TrimSpace(parts[i])
        THEN << >>
        ELSE <<Sscanf(TrimSpace(parts[1]))[1], Sscanf(TrimSpace(parts[2]))[1]>>

\* dumpsterService.parseLocation: <<lat, lng>>, or << >> (nil).
parseLocation(location) ==
    LET parts == Split(location)
    IN  IF Len(parts) # 2 THEN << >>
        ELSE IF Sscanf(TrimSpace(parts[1])) = << >> THEN << >>
        ELSE IF Sscanf(TrimSpace(parts[2])) = << >> THEN << >>
        ELSE <<Sscanf(TrimSpace(parts[1]))[1], Sscanf(TrimSpace(parts[2]))[1]>>

\* dumpsterService.List; text is the location string of the request. With
\* coordinates read from it the answer is that of FindNearby.
DumpsterList(text, maxDistance, maxPrice, size, availableNow, sortBy, page, limit) ==
    LET location == IF text = << >> THEN << >> ELSE parseLocation(text)
    IN  /\ UNCHANGED <<dumpsters, usages, reviews, calls, authVars>>
        /\ last' =
             IF location # << >>
             THEN LET rows == FindNearbyRows(location[1], maxDistance, limit)
                  IN  [buildListResponse("DumpsterList", rows, Len(rows), page, limit)
                         @@ [reqPage |-> page, reqLimit |-> limit, location |-> location,
                             maxDistance |-> maxDistance, text |-> text,
                             maxPrice |-> maxPrice, size |-> size,
                             availableNow |-> availableNow, sortBy |-> sortBy,
                             matching |-> NearbyQuery(location[1], maxDistance)]
                       EXCEPT !.op = "DumpsterListNearby"]
             ELSE Listed("DumpsterList",
                         DumpsterListOrder(DumpsterListQuery(maxPrice, size, availableNow), sortBy),
                         page, limit)
                  @@ [text |-> text, maxPrice |-> maxPrice, size |-> size,
                      availableNow |-> availableNow, sortBy |-> sortBy]

\* The non-deleted dumpsters matching the filters of dumpsterRepository.Search
\* (the text filters on title, description, location, city, state and zip code
\* are on columns this model does not keep).
DumpsterSearchQuery(minPrice, maxPrice, size, isAvailable) ==
    {d \in DOMAIN dumpsters :
        /\ ~dumpsters[d].deleted
        /\ minPrice = << >> \/ dumpsters[d].pricePerDay >= minPrice[1]
        /\ maxPrice = << >> \/ dumpsters[d].pricePerDay <= maxPrice[1]
        /\ size = "" \/ dumpsters[d].size = size
        /\ isAvailable = << >> \/ dumpsters[d].isAvailable = isAvailable[1]}

\* dumpsterService.Search
DumpsterSearch(minPrice, maxPrice, size, isAvailable, page, limit) ==
    /\ UNCHANGED <<dumpsters, usages, reviews, calls, authVars>>
    /\ last' = Listed("DumpsterSearch",
                      DumpstersByCreatedAtDesc(DumpsterSearchQuery(minPrice, maxPrice, size, isAvailable)),
                      page, limit)

\* --------------------------------------------------------- usage statistics
\* query.Where(...) on the *gorm.DB that Model(...) returned: the condition is
\* added to the statement that query keeps, for this and every later use.
Where(query, column, value) == Append(query, [column |-> column, value |-> value])

\* The non-deleted sessions that satisfy every condition of the query.
UsageRows(query) ==
    {i \in DOMAIN usages :
        /\ ~usages[i].deleted
        /\ \A c \in DOMAIN query :
              CASE query[c].column = "dumpster_id" -> usages[i].dumpsterId = query[c].value
                [] query[c].column = "user_id" -> usages[i].userId = query[c].value
                [] query[c].column = "status" -> usages[i].status = query[c].value}

\* COALESCE(SUM(column), 0) over the rows; a NULL adds nothing.
RECURSIVE SumColumn(_, _)
SumColumn(ids, column) ==
    IF ids = {} THEN 0
    ELSE LET i == CHOOSE x \in ids : TRUE
             v == IF column = "duration_minutes" THEN usages[i].durationMinutes
                  ELSE usages[i].totalCost
         IN  (IF v = << >> THEN 0 ELSE v[1]) + SumColumn(ids \ {i}, column)

\* usageRepository.GetStats: five queries on the one statement, which has
\* gathered the conditions of the queries before it.
GetStatsResponse(dumpsterID, userID) ==
    LET q0 == << >>
        q1 == IF dumpsterID # << >> THEN Where(q0, "dumpster_id", dumpsterID[1]) ELSE q0
        q2 == IF userID # << >> THEN Where(q1, "user_id", userID[1]) ELSE q1
        q3 == Where(q2, "status", UsageStatusActive)
        q4 == Where(q3, "status", UsageStatusCompleted)
    IN  [totalUsages |-> Cardinality(UsageRows(q2)),
         activeUsages |-> Cardinality(UsageRows(q3)),
         completedUsages |-> Cardinality(UsageRows(q4)),
         totalMinutes |-> SumColumn(UsageRows(q4), "duration_minutes"),
         totalRevenue |-> SumColumn(UsageRows(q4), "total_cost")]

\* usageService.GetStats
GetStats(dumpsterID, userID) ==
    /\ UNCHANGED <<dumpsters, usages, reviews, calls, authVars>>
    /\ last' = [op |-> "GetStats", err |-> NoError, dumpsterID |-> dumpsterID,
                userID |-> userID, stats |-> GetStatsResponse(dumpsterID, userID)]

\* ---------------------------------------------------------- reading a store
\* The largest number of rows a table of the read store holds.
MaxRows == 49

RowCounts == {0, 1, 22, MaxRows}
Pages == {-1, 0, 1, 2, 3}
Limits == {-1, 0, 5, 20, 101}

\* The reviews of a store of n rows: reviewer i on dumpster 1 for odd i,
\* reviewer 2 on dumpster i for even i, every tenth row deleted.
ReviewTable(n) ==
    {LET row == NewReviewFromDTO(IF i % 2 = 1 THEN i ELSE 2, IF i % 2 = 1 THEN 1 ELSE i,
                                 1 + (i % 5))
     IN  [row EXCEPT !.deleted = (i % 10 = 0)] @@ [id |-> NewReviewID({}, row), createdAt |-> i]
     : i \in 1..n}

\* The dumpsters of a store of n rows, listed one after the other along one
\* meridian 3 km apart, with the rating and review count of their reviews;
\* every third is unavailable and every seventh deleted.
DumpsterTable(n) ==
    [d \in 1..n |->
        [NewDumpsterFromDTO(1 + (d % 2), 1000 + 100 * d)
            EXCEPT !.isAvailable = (d % 3 # 0),
                   !.deleted = (d % 7 = 0),
                   !.rating = StoreRating(GetAverageRating(ReviewTable(n), d)),
                   !.reviewCount = GetReviewCount(ReviewTable(n), d)]
        @@ [size |-> IF d % 2 = 0 THEN "small" ELSE "large",
            latitude |-> 3 * (d - 1), createdAt |-> d]]

\* The sessions of a store of n rows, started a minute apart by users 1 and 2
\* on the first three dumpsters: the first six are active, the others were
\* ended after i minutes and a half, and every tenth row is deleted.
UsageTable(n) ==
    [i \in 1..n |->
        LET row == NewDumpsterUsageFromDTO(1 + (i % 2), 1 + (i % Min(n, 3)), 60 * i)
            duration == DurationMinutes(60 * i + 60 * i + 30, 60 * i)
            cost == calculateCost(DumpsterTable(n)[row.dumpsterId].pricePerDay, duration)
        IN  IF i <= 6 THEN row
            ELSE [row EXCEPT !.endTime = <<60 * i + 60 * i + 30>>,
                             !.durationMinutes = <<duration>>,
                             !.totalCost = <<StoreCost(cost)>>,
                             !.status = UsageStatusCompleted,
                             !.deleted = (i % 10 = 0)]]

InitRead ==
    /\ \E n \in RowCounts :
          /\ dumpsters = DumpsterTable(n)
          /\ usages = UsageTable(n)
          /\ reviews = ReviewTable(n)
          /\ InitAccounts(Users \cup {r.userId : r \in ReviewTable(n)})
    /\ last = Served("none", 0, 0, 0, 0, NoError)
    /\ calls = [p \in Procs |-> Idle]

Optional(values) == {<< >>} \cup {<<v>> : v \in values}

\* Location strings: "", "0,1", "1,0", " 1, 0", "1x,0", "x,0", "0" and "0,1,1".
Locations ==
    {<< >>, <<"0", ",", "1">>, <<"1", ",", "0">>, <<" ", "1", ",", " ", "0">>,
     <<"1", "x", ",", "0">>, <<"x", ",", "0">>, <<"0">>, <<"0", ",", "1", ",", "1">>}

\* One read request on the store; a read leaves the store as it is, so a
\* behaviour serves one.
NextRead ==
    /\ last.op = "none"
    /\ \/ \E status \in {"", UsageStatusActive, UsageStatusCompleted},
             d \in Optional({1}), u \in Optional({1}), page \in Pages, limit \in Limits :
             UsageList(status, d, u, page, limit)
       \/ \E d \in {1, 2}, status \in {"", UsageStatusCompleted}, page \in Pages, limit \in Limits :
             UsageGetByDumpsterID(d, status, page, limit)
       \/ \E u \in {1, 2}, status \in {"", UsageStatusCompleted}, page \in Pages, limit \in Limits :
             UsageGetByUserID(u, status, page, limit)
       \/ \E d \in {1, 2}, page \in Pages, limit \in Limits :
             ReviewGetByDumpsterID(d, page, limit)
       \/ \E u \in {1, 2}, page \in Pages, limit \in Limits :
             ReviewGetByUserID(u, page, limit)
       \/ \E location \in Locations, maxDistance \in Optional({24, 100}),
             maxPrice \in Optional({3000}), size \in {"", "small"},
             availableNow \in Optional({TRUE}), sortBy \in {"", "price", "availability"},
             page \in Pages, limit \in Limits :
             DumpsterList(location, maxDistance, maxPrice, size, availableNow, sortBy, page, limit)
       \/ \E minPrice \in Optional({2000}), maxPrice \in Optional({3000}), size \in {"", "small"},
             isAvailable \in Optional(BOOLEAN), page \in Pages, limit \in Limits :
             DumpsterSearch(minPrice, maxPrice, size, isAvailable, page, limit)
       \/ \E latitude \in {0, 1}, maxDistance \in Optional({24, 100}), limit \in Limits :
             FindNearby(latitude, maxDistance, limit)
       \/ \E d \in Optional({1, 2}), u \in Optional({1, 2}) :
             GetStats(d, u)

SpecRead == InitRead /\ [][NextRead]_vars

\* ------------------------------------------------------- booking a dumpster
\* The periods asked for: two that overlap and one that ends as it starts.
BookingDates ==
    {<<0, 2 * SecondsPerDay>>, <<SecondsPerDay, 3 * SecondsPerDay>>,
     <<SecondsPerDay, SecondsPerDay>>}

\* A store of three dumpsters with a review and a session each.
InitBooking ==
    /\ dumpsters = DumpsterTable(3)
    /\ usages = UsageTable(3)
    /\ reviews = ReviewTable(3)
    /\ last = Served("none", 0, 0, 0, 0, NoError)
    /\ calls = [p \in Procs |-> Idle]
    /\ InitAccounts(Users \cup {r.userId : r \in ReviewTable(3)})

NextBooking ==
    \/ \E p \in Procs, u \in Users, d \in UsedDumpsters, dates \in BookingDates :
          BookDumpster(p, u, d, dates[1], dates[2])
    \/ \E d \in UsedDumpsters, a \in BOOLEAN : DumpsterUpdate(OwnerOf(d), d, << >>, <<a>>)
    \/ \E d \in UsedDumpsters : DumpsterDelete(OwnerOf(d), d)

SpecBooking == InitBooking /\ [][NextBooking]_vars

\* ------------------------------------------------------ deleting an account
\* A store of three dumpsters, sessions and reviews of users 1 and 2 (and a
\* review of user 3).
InitAccount == InitBooking

\* A user deletes their account, or the store is read.
NextAccount ==
    \/ \E u \in Users : DeleteMe(u)
    \/ \E page \in {1, 2}, limit \in {0, 1} :
          \/ DumpsterList(<< >>, << >>, << >>, "", << >>, "", page, limit)
          \/ DumpsterSearch(<< >>, << >>, "", << >>, page, limit)
          \/ UsageList("", << >>, << >>, page, limit)
          \/ \E u \in Users : UsageGetByUserID(u, "", page, limit)
          \/ \E u \in Users : ReviewGetByUserID(u, page, limit)
          \/ \E d \in DumpsterIds : ReviewGetByDumpsterID(d, page, limit)
    \/ \E latitude \in {0, 1} : FindNearby(latitude, << >>, 0)

SpecAccount == InitAccount /\ [][NextAccount]_vars

\* ------------------------------------------------------------ signing in
\* The times at which requests arrive: at the start, when the access tokens
\* of the start expire and when its refresh tokens do.
Times == {0, defaultAccessTokenExpiry, defaultRefreshTokenExpiry}

\* Users sign in, present tokens they were handed (or a forged one) for a new
\* access token and delete their accounts, while time passes.
NextAuth ==
    \/ \E u \in Users, passwordMatches \in BOOLEAN : Login(u, passwordMatches)
    \/ \E token \in issued \cup {ForgedToken} : RefreshToken(token)
    \/ \E u \in Users : DeleteMe(u)
    \/ \E t \in Times : t > now /\ Tick(t - now)

SpecAuth == Init /\ [][NextAuth]_vars

\* ------------------------------------------------------ changing the e-mail
\* The addresses of the two users and one nobody registered with.
Emails == Users \cup {3}

NextEmail ==
    \/ \E u \in Users, e \in Emails : UpdateEmail(u, e)
    \/ \E u \in Users : VerifyEmail(u)
    \/ \E u \in Users : DeleteMe(u)

SpecEmail == Init /\ [][NextEmail]_vars

\* ------------------------------------------------------------- properties
\* The non-deleted reviews of dumpster d, and the non-deleted active sessions
\* of user u on dumpster d.
LiveReviews(d) == {r \in reviews : r.dumpsterId = d /\ ~r.deleted}
ActiveSessions(u, d) ==
    {i \in DOMAIN usages :
        /\ usages[i].userId = u /\ usages[i].dumpsterId = d
        /\ usages[i].status = UsageStatusActive /\ ~usages[i].deleted}

\* C1, as the store keeps it: when review Create, Update and Delete run one at
\* a time, every dumpster's reviewCount is the number of its non-deleted
\* reviews, and its rating is their average rounded to the hundredth (half
\* up), 0 when there are none.
C1_RatingIsRoundedAverage ==
    \A d \in DumpsterIds :
        LET n == Cardinality(LiveReviews(d))
            s == SumRating(LiveReviews(d))
            rating == dumpsters[d].rating
        IN  /\ dumpsters[d].reviewCount = n
            /\ n = 0 => rating = 0
            /\ n > 0 => /\ 2 * (rating * n - 100 * s) <= n
                        /\ 2 * (100 * s - rating * n) < n

\* C1 as stated: the rating is exactly the average of the non-deleted reviews.
C1_RatingIsExactAverage ==
    \A d \in DumpsterIds :
        LET n == Cardinality(LiveReviews(d))
            s == SumRating(LiveReviews(d))
        IN  /\ dumpsters[d].reviewCount = n
            /\ n = 0 => dumpsters[d].rating = 0
            /\ n > 0 => dumpsters[d].rating * n = 100 * s

\* Three reviews of a dumpster rated 1, 1 and 5: the average 7/3 is kept as 2.33.
C1_Witness ==
    \E d \in DumpsterIds :
        /\ Cardinality(LiveReviews(d)) = 3
        /\ SumRating(LiveReviews(d)) = 7
        /\ dumpsters[d].reviewCount = 3
        /\ dumpsters[d].rating = 233

\* C2: when the usage operations run one at a time, no (user, dumpster) pair
\* ever has more than one non-deleted active session, and a StartUsage for a
\* pair that has one creates no session and fails, with BadRequest whenever
\* the dumpster exists.
C2_AtMostOneActiveSession ==
    /\ [](\A u \in Users, d \in DumpsterIds : Cardinality(ActiveSessions(u, d)) <= 1)
    /\ [][(last'.op = "StartUsage" /\ ActiveSessions(last'.user, last'.dumpster) # {})
            => /\ usages' = usages
               /\ last'.err # NoError
               /\ (~dumpsters[last'.dumpster].deleted
                     => last'.err.type = ErrorTypeBadRequest)]_vars

\* A StartUsage was refused because the pair has an active session.
C2_Witness ==
    /\ last.op = "StartUsage"
    /\ last.err = BadRequest("you already have an active usage session for this dumpster")
    /\ Cardinality(ActiveSessions(last.user, last.dumpster)) = 1

\* C3: in the interleaved StartUsage, every request that passed the
\* no-active-session check inserts its session (nothing in the table rejects
\* the insert), so requests for one pair that all passed it all succeed.
C3_EveryPassedCallInserts ==
    /\ \A p \in Procs : (calls[p].pc = "done" /\ calls[p].passed) => calls[p].err = NoError
    /\ Len(usages) = Cardinality({p \in Procs : calls[p].pc = "done" /\ calls[p].passed})

\* Two requests for the same pair both succeeded, and the pair has two active sessions.
C3_Witness ==
    \E p, q \in Procs :
        /\ p # q
        /\ calls[p].pc = "done" /\ calls[p].err = NoError
        /\ calls[q].pc = "done" /\ calls[q].err = NoError
        /\ calls[p].user = calls[q].user /\ calls[p].dumpster = calls[q].dumpster
        /\ dumpsters[calls[p].dumpster].isAvailable
        /\ Cardinality(ActiveSessions(calls[p].user, calls[p].dumpster)) >= 2

\* C4: a StartUsage on an existing dumpster that is not available fails with
\* BadRequest and creates no session, and no StartUsage, successful or not,
\* changes any field of any dumpster.
C4_UnavailableDumpsterRefused ==
    [][last'.op = "StartUsage"
         => /\ dumpsters' = dumpsters
            /\ (~dumpsters[last'.dumpster].deleted /\ ~dumpsters[last'.dumpster].isAvailable)
                 => (last'.err.type = ErrorTypeBadRequest /\ usages' = usages)]_vars

\* A StartUsage was refused because the dumpster is not available.
C4_Witness ==
    /\ last.op = "StartUsage"
    /\ last.err = BadRequest("dumpster is not available")
    /\ ~dumpsters[last.dumpster].deleted
    /\ ~dumpsters[last.dumpster].isAvailable

\* C5 as stated: an EndUsage by the session's own user on an active session,
\* with an end time before or equal to the start time, fails with BadRequest
\* and leaves the session as it was.
C5_EndNotAfterStartIsBadRequest ==
    [][(/\ last'.op = "EndUsage"
        /\ last'.id \in DOMAIN usages
        /\ ~usages[last'.id].deleted
        /\ usages[last'.id].status = UsageStatusActive
        /\ usages[last'.id].userId = last'.user
        /\ last'.time <= usages[last'.id].startTime)
         => (last'.err.type = ErrorTypeBadRequest /\ usages' = usages)]_vars

\* An EndUsage with the end time equal to the start time was refused by the
\* table's constraint, as an internal error; the session is still active.
C5_Witness ==
    /\ last.op = "EndUsage"
    /\ last.id \in DOMAIN usages
    /\ usages[last.id].status = UsageStatusActive
    /\ usages[last.id].userId = last.user
    /\ usages[last.id].endTime = << >>
    /\ last.time = usages[last.id].startTime
    /\ last.err = Internal("failed to update usage")
    /\ HTTPStatus(last.err) = 500

\* C6: an active session has no end time, duration or cost; a completed one has
\* all three, with the end time strictly after the start time; and the cost
\* of a session is set or changed only by a successful EndUsage of that session.
C6_CostSetOnlyByEndUsage ==
    /\ [](\A i \in DOMAIN usages :
            /\ usages[i].status = UsageStatusActive
                 => /\ usages[i].endTime = << >>
                    /\ usages[i].durationMinutes = << >>
                    /\ usages[i].totalCost = << >>
            /\ usages[i].status = UsageStatusCompleted
                 => /\ usages[i].endTime # << >>
                    /\ usages[i].durationMinutes # << >>
                    /\ usages[i].totalCost # << >>
                    /\ usages[i].endTime[1] > usages[i].startTime)
    /\ [][\A i \in DOMAIN usages' :
            (IF i \in DOMAIN usages
             THEN usages'[i].totalCost # usages[i].totalCost
             ELSE usages'[i].totalCost # << >>)
              => (last'.op = "EndUsage" /\ last'.err = NoError /\ last'.id = i)]_vars

\* A session was completed by an EndUsage and a session is still active.
C6_Witness ==
    /\ \E i \in DOMAIN usages :
          /\ usages[i].status = UsageStatusCompleted
          /\ usages[i].totalCost # << >>
          /\ usages[i].endTime[1] > usages[i].startTime
    /\ \E i \in DOMAIN usages :
          usages[i].status = UsageStatusActive /\ usages[i].totalCost = << >>

\* C7: a successful EndUsage computes the duration as the whole minutes between
\* start and end, rounded down, and the cost as the dumpster's price per day
\* at that moment, divided by 1440, times the duration: 3.00 for a price of
\* 72.00 and 60 minutes.  The session keeps that duration, and that cost
\* rounded to the cent.
C7_DurationFloorAndCost ==
    [][(last'.op = "EndUsage" /\ last'.err = NoError)
         => LET id == last'.id
                elapsed == last'.time - usages[id].startTime
                m == last'.durationMinutes[1]
                price == dumpsters[usages[id].dumpsterId].pricePerDay
                stored == usages'[id].totalCost[1]
            IN  /\ m >= 0
                /\ m * SecondsPerMinute <= elapsed
                /\ elapsed < (m + 1) * SecondsPerMinute
                /\ usages'[id].durationMinutes = <<m>>
                /\ last'.totalCost[1] = price * m
                /\ (price = 7200 /\ m = 60) => last'.totalCost[1] = 300 * MinutesPerDay
                /\ 2 * (stored * MinutesPerDay - price * m) <= MinutesPerDay
                /\ 2 * (price * m - stored * MinutesPerDay) <= MinutesPerDay]_vars

\* A session of sixty and a half minutes on a dumpster priced 72.00 a day was
\* ended: 60 minutes, cost 3.00.
C7_Witness ==
    /\ last.op = "EndUsage"
    /\ last.err = NoError
    /\ last.time - usages[last.id].startTime = 60 * SecondsPerMinute + 30
    /\ dumpsters[usages[last.id].dumpsterId].pricePerDay = 7200
    /\ last.durationMinutes = <<60>>
    /\ last.totalCost = <<300 * MinutesPerDay>>
    /\ usages[last.id].totalCost = <<300>>

\* C8: a review Create by a user who has a non-deleted review of the dumpster
\* fails with BadRequest "you have already reviewed this dumpster" (HTTP 400)
\* whatever the ratings, stores nothing and leaves every dumpster as it was;
\* and no (user, dumpster) pair ever has two non-deleted reviews.
C8_SecondReviewRefused ==
    /\ [](\A u \in Reviewers, d \in DumpsterIds :
            Cardinality({r \in reviews : r.userId = u /\ r.dumpsterId = d /\ ~r.deleted}) <= 1)
    /\ [][(/\ last'.op = "ReviewCreate"
           /\ \E r \in reviews :
                r.userId = last'.user /\ r.dumpsterId = last'.dumpster /\ ~r.deleted)
            => /\ last'.err = BadRequest("you have already reviewed this dumpster")
               /\ HTTPStatus(last'.err) = 400
               /\ reviews' = reviews
               /\ dumpsters' = dumpsters]_vars

\* A second Create, with a rating other than the first review's, was refused.
C8_Witness ==
    /\ last.op = "ReviewCreate"
    /\ last.err = BadRequest("you have already reviewed this dumpster")
    /\ \E r \in reviews :
          /\ r.userId = last.user /\ r.dumpsterId = last.dumpster /\ ~r.deleted
          /\ r.rating # last.rating[1]
          /\ dumpsters[r.dumpsterId].reviewCount = Cardinality(LiveReviews(r.dumpsterId))

\* Two review Create requests for one pair, with ratings the table accepts,
\* that both passed the existing-review check and both returned.
BothPassed(p, q) ==
    /\ p # q
    /\ calls[p].pc = "done" /\ calls[p].passed
    /\ calls[q].pc = "done" /\ calls[q].passed
    /\ calls[p].user = calls[q].user /\ calls[p].dumpster = calls[q].dumpster
    /\ calls[p].rating \in 1..5 /\ calls[q].rating \in 1..5

\* C9 as stated: when two review Create requests for one pair both pass the
\* existing-review check, exactly one review is stored, one request succeeds
\* and the other fails with an AlreadyExists error (HTTP 409).
C9_LoserGetsAlreadyExists ==
    \A p, q \in Procs :
        (BothPassed(p, q) /\ calls[p].err = NoError)
          => /\ Cardinality({r \in reviews : r.userId = calls[p].user
                                             /\ r.dumpsterId = calls[p].dumpster}) = 1
             /\ calls[q].err.type = ErrorTypeAlreadyExists
             /\ HTTPStatus(calls[q].err) = 409

\* Both passed the check; one review is stored, and the loser got the
\* internal error of the failed insert (HTTP 500).
C9_Witness ==
    \E p, q \in Procs :
        /\ BothPassed(p, q)
        /\ calls[p].err = NoError
        /\ Cardinality({r \in reviews : r.userId = calls[p].user
                                        /\ r.dumpsterId = calls[p].dumpster}) = 1
        /\ calls[q].err = Internal("failed to create review")
        /\ HTTPStatus(calls[q].err) = 500

\* C10: a session is created active; its status changes only from active to
\* completed, and only by a successful EndUsage of that session; no session is
\* ever cancelled.
C10_StatusOnlyActiveToCompleted ==
    /\ [](\A i \in DOMAIN usages : usages[i].status # UsageStatusCancelled)
    /\ [][/\ \A i \in DOMAIN usages :
               /\ i \in DOMAIN usages'
               /\ usages'[i].status # usages[i].status
                    => /\ usages[i].status = UsageStatusActive
                       /\ usages'[i].status = UsageStatusCompleted
                       /\ last'.op = "EndUsage"
                       /\ last'.err = NoError
                       /\ last'.id = i
          /\ \A i \in DOMAIN usages' \ DOMAIN usages :
               /\ usages'[i].status = UsageStatusActive
               /\ last'.op = "StartUsage"]_vars

\* The last request was the EndUsage that completed a session, and a deleted
\* session exists.
C10_Witness ==
    /\ last.op = "EndUsage"
    /\ last.err = NoError
    /\ usages[last.id].status = UsageStatusCompleted
    /\ \E i \in DOMAIN usages : usages[i].deleted

\* The rounding of the average of the non-deleted reviews of dumpster d in
\* review table rs to the hundredth, and their number, as a dumpster row keeps them.
IsAggregateOf(row, rs, d) ==
    LET rows == {r \in rs : r.dumpsterId = d /\ ~r.deleted}
        n == Cardinality(rows)
        s == SumRating(rows)
    IN  /\ row.reviewCount = n
        /\ n = 0 => row.rating = 0
        /\ n > 0 => /\ 2 * (row.rating * n - 100 * s) <= n
                    /\ 2 * (100 * s - row.rating * n) < n

\* The request just served was a review mutation whose recomputation failed:
\* the dumpster write was refused, or (Update and Delete look the dumpster up
\* only in the recomputation) the dumpster is gone.
RecomputationFailed(served) ==
    \/ /\ served.op \in {"ReviewCreate", "ReviewUpdate", "ReviewDelete"}
       /\ served.err = Internal("failed to update dumpster")
    \/ /\ served.op \in {"ReviewUpdate", "ReviewDelete"}
       /\ served.err = NotFound("dumpster not found")

\* C11: a review Create, Update or Delete whose recomputation fails returns
\* the error, keeps the review change it wrote and leaves every dumpster with
\* the rating and reviewCount it had; a review mutation that succeeds leaves
\* the dumpster with the aggregate of its reviews.
C11_FailedRecomputationKeepsReview ==
    [][/\ RecomputationFailed(last')
            => /\ dumpsters' = dumpsters
               /\ last'.op = "ReviewCreate"
                    => \E r \in reviews' \ reviews :
                          /\ r.userId = last'.user /\ r.dumpsterId = last'.dumpster
                          /\ <<r.rating>> = last'.rating /\ ~r.deleted
               /\ last'.op = "ReviewUpdate"
                    => \E r \in reviews' :
                          /\ r.id = last'.reviewId /\ ~r.deleted
                          /\ last'.rating # << >> => <<r.rating>> = last'.rating
               /\ last'.op = "ReviewDelete"
                    => /\ \E r \in reviews : r.id = last'.reviewId /\ ~r.deleted
                       /\ \E r \in reviews' : r.id = last'.reviewId /\ r.deleted
       /\ (/\ last'.op \in {"ReviewCreate", "ReviewUpdate", "ReviewDelete"}
           /\ last'.err = NoError)
            => IsAggregateOf(dumpsters'[last'.dumpster], reviews', last'.dumpster)]_vars

\* A Create returned the error of the refused dumpster write: the review is
\* stored and the dumpster still shows no review.
C11_Witness ==
    /\ last.op = "ReviewCreate"
    /\ last.err = Internal("failed to update dumpster")
    /\ \E r \in reviews :
          r.userId = last.user /\ r.dumpsterId = last.dumpster /\ ~r.deleted
    /\ dumpsters[last.dumpster].reviewCount = 0
    /\ dumpsters[last.dumpster].rating = 0

\* C12: a review Update or Delete by a user other than the author of an
\* existing review, a dumpster Update or Delete by a user other than the owner
\* of an existing dumpster, and an EndUsage by a user other than the user of an
\* existing session fail with Forbidden (HTTP 403) and change no review, no
\* session and no dumpster.
C12_NotOwnerIsForbidden ==
    [][(\/ /\ last'.op \in {"ReviewUpdate", "ReviewDelete"}
           /\ \E r \in reviews : r.id = last'.reviewId /\ ~r.deleted /\ r.userId # last'.user
        \/ /\ last'.op \in {"DumpsterUpdate", "DumpsterDelete"}
           /\ ~dumpsters[last'.dumpster].deleted
           /\ dumpsters[last'.dumpster].ownerId # last'.user
        \/ /\ last'.op = "EndUsage"
           /\ last'.id \in DOMAIN usages
           /\ ~usages[last'.id].deleted
           /\ usages[last'.id].userId # last'.user)
         => /\ last'.err.type = ErrorTypeForbidden
            /\ HTTPStatus(last'.err) = 403
            /\ reviews' = reviews
            /\ usages' = usages
            /\ dumpsters' = dumpsters]_vars

\* A user who is not the author asked to delete a review: refused, and the
\* review is still there and still counted.
C12_Witness ==
    /\ last.op = "ReviewDelete"
    /\ last.err = Forbidden("you don't have permission to delete this review")
    /\ \E r \in reviews : r.id = last.reviewId /\ ~r.deleted /\ r.userId # last.user
    /\ \E d \in DumpsterIds : dumpsters[d].reviewCount >= 1

\* C13: whatever ratings the Create and Update requests carry, every stored
\* review (soft-deleted ones included) has a rating from 1 to 5, and every
\* dumpster has a rating from 0 to 5.00 and a reviewCount of at least 0.
C13_RatingsInRange ==
    /\ \A r \in reviews : r.rating >= 1 /\ r.rating <= 5
    /\ \A d \in DumpsterIds :
          /\ dumpsters[d].rating >= 0
          /\ dumpsters[d].rating <= 500
          /\ dumpsters[d].reviewCount >= 0

\* An Update carrying a rating outside 1..5 was made by the author of a review:
\* it was refused, and the review and the dumpster keep their values.
C13_Witness ==
    /\ last.op = "ReviewUpdate"
    /\ last.rating # << >>
    /\ last.rating[1] \notin 1..5
    /\ last.err = Internal("failed to update review")
    /\ \E r \in reviews :
          /\ r.id = last.reviewId /\ r.userId = last.user /\ ~r.deleted
          /\ r.rating \in 1..5
          /\ dumpsters[r.dumpsterId].reviewCount >= 1
\* ---------------------------------------------------------------- listing
\* The operations that answer with a page of rows and the pagination fields.
PaginatedOps ==
    {"UsageList", "UsageGetByDumpsterID", "UsageGetByUserID", "ReviewGetByDumpsterID",
     "ReviewGetByUserID", "DumpsterList", "DumpsterListNearby", "DumpsterSearch"}

\* pages is the least number of pages of the given size that hold total rows.
IsCeiling(pages, total, size) ==
    /\ size >= 1
    /\ pages * size >= total
    /\ (pages - 1) * size < total

\* C14, as stated: in every paginated list response, the dumpster List given a
\* location included, total is the number of rows matching the filters and
\* totalPages is the ceiling of that number over the reported limit.
C14_TotalIsMatchingRows ==
    last.op \in PaginatedOps =>
        /\ last.total = Cardinality(last.matching)
        /\ IsCeiling(last.totalPages, Cardinality(last.matching), last.limit)

\* C14, amended: in every paginated list response totalPages is the ceiling of
\* the reported total over the reported limit; the total is the number of rows
\* matching the filters whatever the page, except in a dumpster List given a
\* location that parses, where it is the number of rows returned.
C14_TotalPagesIsCeiling ==
    last.op \in PaginatedOps =>
        /\ IsCeiling(last.totalPages, last.total, last.limit)
        /\ last.limit = (IF last.reqLimit >= 1 THEN last.reqLimit ELSE 1)
        /\ IF last.op = "DumpsterListNearby"
           THEN last.total = Len(last.rows)
           ELSE last.total = Cardinality(last.matching)

\* C14 witness: a listing with limit 20 and 45 matching rows reports 3 pages,
\* and a page past the last reports the same.
C14_Witness ==
    /\ last.op = "UsageList"
    /\ last.reqLimit = 20 /\ last.reqPage = 3
    /\ Cardinality(last.matching) = 45
    /\ last.totalPages = 3

\* The page size the pagination policy gives a supplied limit: 20 when none
\* is supplied, the limit itself up to 100, and 100 above.
PolicyPageSize(limit) == IF limit <= 0 THEN 20 ELSE IF limit <= 100 THEN limit ELSE 100

\* C15, as stated: every paginated list call fetches page 1 when the supplied
\* page is 0 or less, and fetches with page size 20 when no limit is supplied,
\* the supplied limit when it is between 1 and 100, and 100 when it is larger;
\* so a page never holds more rows than that size.
C15_PageAndLimitDefaults ==
    (last.op \in PaginatedOps /\ last.op # "DumpsterListNearby") =>
        /\ last.reqPage <= 0 => last.queryPage = 1
        /\ last.queryLimit = PolicyPageSize(last.reqLimit)
        /\ Len(last.rows) <= PolicyPageSize(last.reqLimit)

\* C15 witness: a call that supplied limit 5 was answered with a page of 20
\* rows.
C15_Witness ==
    /\ last.op = "ReviewGetByDumpsterID"
    /\ last.reqLimit = 5
    /\ last.queryLimit = 20
    /\ Len(last.rows) = 20

\* C16, as stated: FindNearby returns only non-deleted dumpsters nearer than
\* maxDistance (25 when omitted), by ascending distance, and at most the
\* requested limit of them (20 when omitted).
C16_NearbyWithinOrderedCapped ==
    last.op = "FindNearby" =>
        LET within == IF last.maxDistance = << >> THEN 25 ELSE last.maxDistance[1]
            dist(i) == Distance(dumpsters[last.rows[i]].latitude, last.latitude)
        IN  /\ \A i \in DOMAIN last.rows :
                  /\ ~dumpsters[last.rows[i]].deleted
                  /\ dist(i) < within
            /\ \A i, j \in DOMAIN last.rows : i < j => dist(i) < dist(j)
            /\ Len(last.rows) <= (IF last.reqLimit <= 0 THEN 20 ELSE last.reqLimit)

\* C16 witness: a search that asked for 5 rows was answered with 8, the
\* dumpster at the query point first.
C16_Witness ==
    /\ last.op = "FindNearby"
    /\ last.reqLimit = 5
    /\ Len(last.rows) = 8
    /\ dumpsters[last.rows[1]].latitude = last.latitude

\* ------------------------------------------------------------- statistics
\* The non-deleted sessions a GetStats request with these filters is about.
StatsSessions(dumpsterID, userID) ==
    {i \in DOMAIN usages :
        /\ ~usages[i].deleted
        /\ dumpsterID = << >> \/ usages[i].dumpsterId = dumpsterID[1]
        /\ userID = << >> \/ usages[i].userId = userID[1]}

\* C17, as stated: over the non-deleted sessions matching the filters,
\* GetStats returns their count, the count of the active ones, the count of
\* the completed ones, the sum of durationMinutes and the sum of totalCost;
\* all five are zero when no session matches.
C17_StatsAggregateMatchingSessions ==
    last.op = "GetStats" =>
        LET rows == StatsSessions(last.dumpsterID, last.userID)
        IN  /\ last.err = NoError
            /\ last.stats.totalUsages = Cardinality(rows)
            /\ last.stats.activeUsages =
                  Cardinality({i \in rows : usages[i].status = UsageStatusActive})
            /\ last.stats.completedUsages =
                  Cardinality({i \in rows : usages[i].status = UsageStatusCompleted})
            /\ last.stats.totalMinutes = SumColumn(rows, "duration_minutes")
            /\ last.stats.totalRevenue = SumColumn(rows, "total_cost")

\* C17 witness: statistics over a store with completed sessions report no
\* completed session, no minute and no revenue.
C17_Witness ==
    /\ last.op = "GetStats"
    /\ last.dumpsterID = << >> /\ last.userID = << >>
    /\ \E i \in DOMAIN usages : usages[i].status = UsageStatusCompleted /\ ~usages[i].deleted
    /\ last.stats.totalUsages = 45
    /\ last.stats.activeUsages = 6
    /\ last.stats.completedUsages = 0
    /\ last.stats.totalMinutes = 0
    /\ last.stats.totalRevenue = 0

\* ---------------------------------------------------------------- bookings
\* C18: a BookDumpster call, successful or failed, leaves every dumpster, usage
\* session and review as it was, and it succeeds whenever the dumpster exists,
\* is available and the end date is after the start date, whatever was booked
\* before.
C18_BookDumpsterChangesNothing ==
    [][last'.op = "BookDumpster" =>
          /\ UNCHANGED <<dumpsters, usages, reviews, users>>
          /\ (last'.err = NoError) <=>
                (/\ DumpsterGetByID(last'.dumpster) # << >>
                 /\ DumpsterGetByID(last'.dumpster)[1].isAvailable
                 /\ last'.endDate > last'.startDate)]_vars

\* C18 witness: two clients hold quotes for overlapping periods of the same
\* dumpster, which is still available.
C18_Witness ==
    /\ calls[1] # Idle /\ calls[2] # Idle
    /\ calls[1].err = NoError /\ calls[2].err = NoError
    /\ calls[1].dumpster = calls[2].dumpster
    /\ calls[1].startDate < calls[2].startDate /\ calls[2].startDate < calls[1].endDate
    /\ dumpsters[calls[1].dumpster].isAvailable
    /\ last.op = "BookDumpster" /\ last.err = NoError

\* ---------------------------------------------------------------- accounts
DumpsterListOps == {"DumpsterList", "DumpsterListNearby", "DumpsterSearch", "FindNearby"}
UsageListOps == {"UsageList", "UsageGetByDumpsterID", "UsageGetByUserID"}
ReviewListOps == {"ReviewGetByDumpsterID", "ReviewGetByUserID"}

\* The user a returned row belongs to: the owner of a dumpster, the user of a
\* session, the author of a review.
RowUser(op, row) ==
    IF op \in DumpsterListOps THEN dumpsters[row].ownerId
    ELSE IF op \in UsageListOps THEN usages[row].userId
    ELSE (CHOOSE r \in reviews : r.id = row).userId

\* C19, as stated: once a user has deleted their account, no list operation
\* returns a dumpster they own, a review they wrote or a session they started.
C19_DeletedUsersRowsNotReturned ==
    last.op \in DumpsterListOps \cup UsageListOps \cup ReviewListOps =>
        \A i \in DOMAIN last.rows :
            LET u == RowUser(last.op, last.rows[i])
            IN  u \in DOMAIN users => ~users[u].deleted

\* C19 witness: user 1 has deleted their account and a dumpster listing
\* answered after that returns the dumpster user 1 owns.
C19_Witness ==
    /\ users[1].deleted
    /\ last.op = "DumpsterList"
    /\ \E i \in DOMAIN last.rows : dumpsters[last.rows[i]].ownerId = 1

\* The refresh token cached for the user at the time t, if any.
CachedAt(userID, t) ==
    IF tokenCache[userID] # << >> /\ t < tokenCache[userID][1].expiresAt
    THEN <<tokenCache[userID][1].token>>
    ELSE << >>

\* The token is a refresh token a Login returned, not expired at time t and
\* still the one cached for its user.
IsLiveRefreshToken(token, t) ==
    /\ token \in issued
    /\ token.type = "refresh"
    /\ t < token.expiresAt
    /\ CachedAt(token.userId, t) = <<token>>

\* C20, as stated: a RefreshToken call carrying the refresh token a Login
\* returned, not expired and still cached for its user, succeeds with a new
\* access token; a call carrying any other token fails with Unauthorized.
C20_RefreshWithLoginTokenSucceeds ==
    last.op = "RefreshToken" =>
        IF IsLiveRefreshToken(last.token, last.time)
        THEN /\ last.err = NoError
             /\ last.accessToken # << >>
             /\ last.accessToken[1].type = "access"
             /\ last.accessToken[1].userId = last.token.userId
        ELSE last.err.type = ErrorTypeUnauthorized

\* C20 witness: the refresh token a Login returned, not expired and still
\* cached, was refused as Unauthorized.
C20_Witness ==
    /\ last.op = "RefreshToken"
    /\ IsLiveRefreshToken(last.token, last.time)
    /\ last.err = Unauthorized("invalid refresh token")

\* ------------------------------------------------------------------ e-mail
\* The address is the address of a non-deleted user other than u.
EmailTaken(u, email) ==
    \E v \in DOMAIN users : v # u /\ ~users[v].deleted /\ users[v].email = email

\* C21, as stated: an UpdateEmail to an address another non-deleted user has
\* fails with AlreadyExists (409) and leaves the users as they were, and no
\* two non-deleted users ever share an address.
C21_TakenEmailIsAlreadyExists ==
    /\ [](\A u, v \in DOMAIN users :
            (u # v /\ ~users[u].deleted /\ ~users[v].deleted) => users[u].email # users[v].email)
    /\ [][(/\ last'.op = "UpdateEmail"
           /\ UserGetByID(last'.user) # << >>
           /\ EmailTaken(last'.user, last'.email)) =>
              /\ last'.err.type = ErrorTypeAlreadyExists
              /\ HTTPStatus(last'.err) = 409
              /\ UNCHANGED users]_vars

\* C21 witness: a user with a verified address asked for the address of the
\* other user and was answered with an Internal error, the row as it was.
C21_Witness ==
    /\ last.op = "UpdateEmail"
    /\ UserGetByID(last.user) # << >>
    /\ EmailTaken(last.user, last.email)
    /\ last.err = Internal("failed to update user")
    /\ HTTPStatus(last.err) = 500
    /\ users[last.user].isEmailVerified
    /\ users[last.user].email # last.email

\* ------------------------------------------------------- ending a session
\* The error of the first precondition of EndUsage that fails for the request
\* in the store, in the order the claim gives; NoError when none fails.
FirstFailedPrecondition(userID, id, endTime) ==
    IF id \notin DOMAIN usages \/ usages[id].deleted
    THEN NotFound("usage not found")
    ELSE IF usages[id].userId # userID
    THEN Forbidden("you don't have permission to end this usage session")
    ELSE IF usages[id].status # UsageStatusActive
    THEN BadRequest("usage session is not active")
    ELSE IF endTime < usages[id].startTime
    THEN BadRequest("end time must be after start time")
    ELSE IF dumpsters[usages[id].dumpsterId].deleted
    THEN NotFound("dumpster not found")
    ELSE NoError

\* C22: EndUsage answers with the error of the first failing precondition, in
\* the order session exists (NotFound), caller is its user (Forbidden), status
\* is active (BadRequest), end time not before the start (BadRequest), dumpster
\* found (NotFound); every failed EndUsage leaves the sessions as they were,
\* and with the dumpster deleted the session stays active.
C22_EndUsageCheckOrder ==
    [][last'.op = "EndUsage" =>
          LET failed == FirstFailedPrecondition(last'.user, last'.id, last'.time)
          IN  /\ failed # NoError => last'.err = failed
              /\ last'.err # NoError => usages' = usages
              /\ (failed = NoError /\ last'.err # NoError) =>
                    /\ last'.time = usages[last'.id].startTime
                    /\ last'.err = Internal("failed to update usage")]_vars

\* C22 witness: the user of an active session tried to end it, with a valid
\* end time, after its dumpster was deleted: NotFound, and the session is
\* still active.
C22_Witness ==
    /\ last.op = "EndUsage"
    /\ last.id \in DOMAIN usages
    /\ usages[last.id].userId = last.user
    /\ last.time > usages[last.id].startTime
    /\ dumpsters[usages[last.id].dumpsterId].deleted
    /\ last.err = NotFound("dumpster not found")
    /\ HTTPStatus(last.err) = 404
    /\ usages[last.id].status = UsageStatusActive
    /\ usages[last.id].endTime = << >>

\* --------------------------------------------- interleaved recomputations
\* No request is in flight.
AllCompleted == \A p \in Procs : calls[p].pc \in {"idle", "done"}

\* The requests that were sent, and whether they came from different users.
Sent == {p \in Procs : calls[p].pc # "idle"}
ByDifferentUsers == \A p, q \in Sent : p # q => calls[p].user # calls[q].user

\* The stored aggregate of dumpster d is the aggregate of its reviews.
AggregateIsCurrent(d) ==
    /\ dumpsters[d].reviewCount = GetReviewCount(reviews, d)
    /\ dumpsters[d].rating = StoreRating(GetAverageRating(reviews, d))

\* Request p wrote the dumpster, and the dumpster holds what p read.
HoldsReadsOf(p, d) ==
    /\ calls[p].pc = "done" /\ calls[p].err = NoError /\ calls[p].passed
    /\ calls[p].dumpster = d
    /\ dumpsters[d].reviewCount = calls[p].reviewCount
    /\ dumpsters[d].rating = StoreRating(calls[p].avgRating)

\* C23 as stated: once interleaved review operations of different users on a
\* dumpster have all completed, its reviewCount is the number of its
\* non-deleted reviews and its rating their average.
C23_AggregateCurrentAfterInterleaving ==
    (AllCompleted /\ ByDifferentUsers) => AggregateIsCurrent(1)

\* C23 amended: the last writer wins. Once all operations have completed the
\* dumpster holds the count and the average that one of the operations read
\* before its own dumpster write (or is untouched and current); these are
\* the current count and average when a single operation ran, and after
\* interleaved operations they may be those of an earlier review table.
C23_LastWriterWins ==
    AllCompleted =>
        /\ AggregateIsCurrent(1) \/ \E p \in Procs : HoldsReadsOf(p, 1)
        /\ Cardinality(Sent) <= 1 => AggregateIsCurrent(1)

\* C23 witness: two users' operations on dumpster 1 interleaved and both
\* succeeded; the dumpster holds what one of them read, which is not the
\* count of the reviews that exist now.
C23_Witness ==
    /\ AllCompleted /\ ByDifferentUsers
    /\ \E p, q \in Procs :
          /\ p # q
          /\ calls[p].pc = "done" /\ calls[p].err = NoError /\ calls[p].passed
          /\ HoldsReadsOf(q, 1)
    /\ dumpsters[1].reviewCount # GetReviewCount(reviews, 1)

\* ------------------------------------------------------ deleting a session
\* The sessions of user u on dumpster d that were deleted while active.
DeletedWhileActive(u, d) ==
    {i \in DOMAIN usages : /\ usages[i].userId = u /\ usages[i].dumpsterId = d
                           /\ usages[i].deleted /\ usages[i].status = UsageStatusActive}

\* C24: usage Delete checks neither the caller nor the status: it removes
\* every existing session, active or completed, and answers NotFound for one
\* that does not exist; after an active session was deleted, its user can
\* start a new session on that dumpster.
C24_DeleteHasNoOwnershipOrStatusCheck ==
    [][/\ last'.op = "UsageDelete" =>
             IF last'.id \in DOMAIN usages /\ ~usages[last'.id].deleted
             THEN /\ last'.err = NoError
                  /\ usages' = [usages EXCEPT ![last'.id].deleted = TRUE]
             ELSE /\ last'.err = NotFound("usage not found")
                  /\ HTTPStatus(last'.err) = 404
                  /\ usages' = usages
       /\ (/\ last'.op = "StartUsage"
           /\ DeletedWhileActive(last'.user, last'.dumpster) # {}
           /\ GetActiveUsageByUserAndDumpster(last'.user, last'.dumpster) = {}
           /\ DumpsterGetByID(last'.dumpster) # << >>
           /\ dumpsters[last'.dumpster].isAvailable) =>
             /\ last'.err = NoError
             /\ Len(usages') = Len(usages) + 1
             /\ usages'[Len(usages')].userId = last'.user
             /\ usages'[Len(usages')].status = UsageStatusActive
             /\ ~usages'[Len(usages')].deleted]_vars

\* C24 witness: an active session has been deleted and its user has started
\* a new one on the same dumpster.
C24_Witness ==
    /\ last.op = "StartUsage" /\ last.err = NoError
    /\ DeletedWhileActive(last.user, last.dumpster) # {}
    /\ GetActiveUsageByUserAndDumpster(last.user, last.dumpster) # {}

\* ------------------------------------------------ listing with a location
\* The string has one comma and a number at the start of each side, after
\* spaces.
StartsWithNumber(part) ==
    \E k \in DOMAIN part : part[k] \in Digits /\ \A m \in 1..(k - 1) : part[m] = " "

HasLatLng(text) ==
    \E i \in DOMAIN text :
       /\ text[i] = "," /\ \A k \in DOMAIN text : text[k] = "," => k = i
       /\ StartsWithNumber(SubSeq(text, 1, i - 1))
       /\ StartsWithNumber(SubSeq(text, i + 1, Len(text)))

\* The latitude of the location strings requested here: the first digit.
FirstDigit(text) ==
    DigitValue(text[CHOOSE k \in DOMAIN text : text[k] \in Digits /\ \A m \in 1..(k - 1) : text[m] \notin Digits])

\* C25: dumpster List with a location "lat,lng" answers with the nearby
\* search for that point, whatever maxPrice, size, availableNow, sortBy and
\* page are, and its total is the number of rows returned; with a location
\* that does not give two numbers it answers with the filtered, sorted page.
C25_LocationGivesNearbyResult ==
    /\ last.op \in {"DumpsterList", "DumpsterListNearby"} =>
          (last.op = "DumpsterListNearby" <=> HasLatLng(last.text))
    /\ last.op = "DumpsterListNearby" =>
          /\ last.rows = FindNearbyRows(FirstDigit(last.text), last.maxDistance, last.reqLimit)
          /\ last.total = Len(last.rows)
    /\ last.op = "DumpsterList" =>
          LET matching == DumpsterListQuery(last.maxPrice, last.size, last.availableNow)
          IN  /\ last.total = Cardinality(matching)
              /\ last.rows = LimitOffset(DumpsterListOrder(matching, last.sortBy),
                                         last.queryLimit, last.queryOffset)

\* C25 witness: a List for "1,0" with maxPrice, availableNow, a sort order and
\* page 3 returned rows the filters exclude, and as many as its total; the
\* ordinary listing has no third page.
C25_Witness ==
    /\ last.op = "DumpsterListNearby" /\ last.text = <<"1", ",", "0">>
    /\ last.maxPrice = <<3000>> /\ last.availableNow = <<TRUE>>
    /\ last.sortBy = "price" /\ last.reqPage = 3
    /\ last.total = Len(last.rows) /\ last.total > 0
    /\ \E i \in DOMAIN last.rows : dumpsters[last.rows[i]].pricePerDay > 3000
    /\ \E i \in DOMAIN last.rows : ~dumpsters[last.rows[i]].isAvailable
    /\ Cardinality(DumpsterListQuery(last.maxPrice, "", last.availableNow)) <= 2 * defaultPageSize

\* -------------------------------------------------- interleaved EndUsage
\* Requests p and q have both been served and were EndUsage calls of the
\* session's user for the same session with different end times.
BothEnded(p, q) ==
    /\ p # q /\ calls[p].pc = "done" /\ calls[q].pc = "done"
    /\ calls[p].id = calls[q].id /\ calls[p].time # calls[q].time
    /\ calls[p].id \in DOMAIN usages
    /\ calls[p].user = usages[calls[p].id].userId
    /\ calls[q].user = usages[calls[q].id].userId

\* C26: a completed session keeps its endTime, durationMinutes, totalCost and
\* status for ever, also when two EndUsage calls with different end times for
\* the same active session interleave: one succeeds, the other gets BadRequest.
C26_CompletedSessionNeverChanges ==
    /\ [](\A p, q \in Procs : BothEnded(p, q) =>
             \/ calls[p].err = NoError /\ calls[q].err.type = ErrorTypeBadRequest
             \/ calls[q].err = NoError /\ calls[p].err.type = ErrorTypeBadRequest)
    /\ [][\A id \in DOMAIN usages :
             usages[id].status = UsageStatusCompleted =>
                /\ usages'[id].status = UsageStatusCompleted
                /\ usages'[id].endTime = usages[id].endTime
                /\ usages'[id].durationMinutes = usages[id].durationMinutes
                /\ usages'[id].totalCost = usages[id].totalCost]_vars

\* C26 witness: two EndUsage calls by the session's user with different end
\* times both succeeded, and the session holds the end time of one of them.
C26_Witness ==
    \E p, q \in Procs :
       /\ BothEnded(p, q)
       /\ calls[p].err = NoError /\ calls[q].err = NoError
       /\ usages[calls[p].id].status = UsageStatusCompleted
       /\ usages[calls[p].id].endTime = <<calls[q].time>>

\* ------------------------------------------------ reviewing again
\* User u deleted their review of dumpster d and has no other.
DeletedOwnReview(u, d) ==
    /\ \E r \in reviews : r.userId = u /\ r.dumpsterId = d /\ r.deleted
    /\ GetByUserAndDumpster(u, d) = {}

\* C27: a user who deleted their own review of a dumpster can review it again:
\* the Create succeeds, and the dumpster's rating and reviewCount include the
\* new review.
C27_CreateAfterDeleteSucceeds ==
    [][(/\ last'.op = "ReviewCreate"
        /\ DeletedOwnReview(last'.user, last'.dumpster)
        /\ DumpsterGetByID(last'.dumpster) # << >>
        /\ last'.rating[1] \in 1..5) =>
           /\ last'.err = NoError
           /\ \E r \in reviews' : /\ r.userId = last'.user /\ r.dumpsterId = last'.dumpster
                                  /\ ~r.deleted /\ r.rating = last'.rating[1]
           /\ dumpsters'[last'.dumpster].reviewCount = GetReviewCount(reviews, last'.dumpster) + 1
           /\ dumpsters'[last'.dumpster].rating = StoreRating(GetAverageRating(reviews', last'.dumpster))]_vars

\* C27 witness: the Create of a user who had deleted their review was refused
\* by the store and answered 500; the user still has no review of the dumpster.
C27_Witness ==
    /\ last.op = "ReviewCreate" /\ last.rating[1] \in 1..5
    /\ DeletedOwnReview(last.user, last.dumpster)
    /\ DumpsterGetByID(last.dumpster) # << >>
    /\ last.err = Internal("failed to create review") /\ HTTPStatus(last.err) = 500
    /\ dumpsters[last.dumpster].reviewCount = GetReviewCount(reviews, last.dumpster)

\* ------------------------------- owner Update against a recomputation
\* Request p was an owner's Update that succeeded; request q was a review
\* Create whose recomputation succeeded.
UpdateSucceeded(p) ==
    /\ "pricePerDay" \in DOMAIN calls[p]
    /\ calls[p].pc = "done" /\ calls[p].err = NoError /\ calls[p].passed

RecomputationSucceeded(q) ==
    /\ "reviewCount" \in DOMAIN calls[q]
    /\ calls[q].pc = "done" /\ calls[q].err = NoError /\ calls[q].passed

\* C28: when an owner's Update and a rating recomputation on the same
\* dumpster interleave and both have completed, the dumpster holds the
\* owner's changed fields and the recomputed rating and reviewCount: neither
\* write is lost.
C28_NeitherWriteLost ==
    \A p, q \in Procs :
       (/\ UpdateSucceeded(p) /\ RecomputationSucceeded(q)
        /\ \A o \in Procs \ {p, q} : calls[o].pc = "idle") =>
           /\ dumpsters[1].pricePerDay = calls[p].pricePerDay
           /\ AggregateIsCurrent(1)

\* C28 witness: the owner's Update and a review Create both succeeded; the
\* dumpster has the owner's new price, and reviewCount 0 with one review.
C28_Witness ==
    \E p, q \in Procs :
       /\ UpdateSucceeded(p) /\ RecomputationSucceeded(q)
       /\ \A o \in Procs \ {p, q} : calls[o].pc = "idle"
       /\ calls[p].pricePerDay = 1000 /\ dumpsters[1].pricePerDay = 1000
       /\ GetReviewCount(reviews, 1) = 1 /\ calls[q].reviewCount = 1
       /\ dumpsters[1].reviewCount = 0 /\ dumpsters[1].rating = 0

\* ------------------------------------------------ reported and used limit
\* C29: in every paginated list response the reported limit is the page size
\* the rows were fetched with and the offset was computed from, so the rows
\* returned never outnumber the reported limit and pages 1..totalPages hold
\* every matching row, each once.
C29_ReportedLimitIsPageSizeUsed ==
    /\ last.op \in PaginatedOps => Len(last.rows) <= last.limit
    /\ (last.op \in PaginatedOps /\ last.op # "DumpsterListNearby") =>
          /\ last.limit = last.queryLimit
          /\ last.queryOffset = (last.queryPage - 1) * last.limit
          /\ last.totalPages * last.queryLimit >= Cardinality(last.matching)

\* C29 witness: page 2 with limit 5 of a search matching 42 rows: the response
\* reports limit 5 and carries 20 rows, those from the 21st on.
C29_Witness ==
    /\ last.op = "DumpsterSearch"
    /\ last.reqLimit = 5 /\ last.reqPage = 2
    /\ last.limit = 5 /\ last.queryLimit = defaultPageSize
    /\ last.queryOffset = defaultPageSize
    /\ Cardinality(last.matching) = 42
    /\ Len(last.rows) = 20

\* ------------------------------------------- sessions of a deleted dumpster
\* The sessions that are active and not deleted.
AllActiveSessions ==
    {i \in DOMAIN usages : usages[i].status = UsageStatusActive /\ ~usages[i].deleted}

\* C30: every active session references a dumpster that is not deleted, so
\* its user can always complete it: an EndUsage by that user with an end time
\* after the start succeeds, whatever the dumpster's isAvailable.
C30_ActiveSessionCanBeCompleted ==
    /\ [](\A i \in AllActiveSessions : ~dumpsters[usages[i].dumpsterId].deleted)
    /\ [][(/\ last'.op = "EndUsage"
           /\ last'.id \in AllActiveSessions
           /\ usages[last'.id].userId = last'.user
           /\ last'.time > usages[last'.id].startTime) =>
              /\ last'.err = NoError
              /\ usages'[last'.id].status = UsageStatusCompleted]_vars

\* C30 witness: the owner deleted a dumpster on which a session is active; the
\* Delete succeeded and the session is still active.
C30_Witness ==
    /\ last.op = "DumpsterDelete" /\ last.err = NoError
    /\ dumpsters[last.dumpster].deleted
    /\ \E i \in AllActiveSessions : usages[i].dumpsterId = last.dumpster

====
